---- MODULE Spec2Model ----
(***************************************************************************)
(* A model of htspy's BAM record codec (src/htspy/_bammodule.c): the       *)
(* BamRecord object with its five children, its setters, the tag codec,    *)
(* the serializer and the BamIterator.                                     *)
(*                                                                         *)
(* Representation.  Bytes are integers 0..255 and byte strings are         *)
(* sequences of them.  TLC's integers are 32-bit signed, so a C uint32_t   *)
(* u is held as the signed integer with the same bit pattern: u itself     *)
(* below 2^31, u - 2^32 from 2^31 on.  Addition and subtraction of such    *)
(* values modulo 2^32 is then plain integer arithmetic, as long as the     *)
(* result stays inside the signed range, which the bounds guarantee.       *)
(* A Python int v is the pair (hi, n) with v = n + 2^32 * hi and           *)
(* -2^31 <= n < 2^31.                                                      *)
(***************************************************************************)
EXTENDS Integers, Sequences, FiniteSets, TLC

VARIABLES
    rec,      \* the BamRecord the calls act on
    prev,     \* that record as it was when the last call started
    res,      \* the outcome of the last call
    nops,     \* number of mutating calls made so far
    recs,     \* the records serialized into data, in order
    data,     \* the concatenation of their to_bytes() results
    it,       \* the BamIterator: buf, pos, len, state
    yielded,  \* the records the iterator has returned, in order
    cigar,    \* the BamCigar the Cigar calls have built last
    bbuf,     \* the BamBlockBuffer
    vfo       \* the VirtualFileOffset

vars == <<rec, prev, res, nops, recs, data, it, yielded, cigar, bbuf, vfo>>

\* The objects the calls on a record and on an iterator leave alone.
others == <<cigar, bbuf, vfo>>

----------------------------------------------------------------------------
(* Bounds of the model. *)

MaxOps == 2          \* mutating calls made in one run
MaxRecords == 2      \* records serialized into one buffer
MaxSeqLen == 3       \* bases of a record in a buffer given to the iterator

----------------------------------------------------------------------------
(* Bytes, little-endian words, sequences. *)

Min(a, b) == IF a < b THEN a ELSE b

\* xs[from+1 .. from+n], 0-based offset and length, as memcpy(dst, xs+from, n).
Slice(xs, from, n) == [i \in 1..n |-> xs[from + i]]

Fill(n, b) == [i \in 1..n |-> b]

\* The four little-endian bytes of a 32-bit word (signed or unsigned pattern).
LE32(x) ==
    << x % 256, (x \div 256) % 256, (x \div 65536) % 256, (x \div 16777216) % 256 >>

LE16(x) == << x % 256, (x \div 256) % 256 >>

\* The 32-bit pattern held in four little-endian bytes.
DecodeLE32(b) ==
    b[1] + 256 * b[2] + 65536 * b[3]
      + 16777216 * (IF b[4] >= 128 THEN b[4] - 256 ELSE b[4])

DecodeLE16(b) == b[1] + 256 * b[2]

\* The bytes of an array of 32-bit words in memory.
WordsToBytes(ws) ==
    [i \in 1..(4 * Len(ws)) |-> LE32(ws[((i - 1) \div 4) + 1])[((i - 1) % 4) + 1]]

BytesToWords(bs) ==
    [i \in 1..(Len(bs) \div 4) |-> DecodeLE32(Slice(bs, 4 * (i - 1), 4))]

IsAscii(cs) == \A i \in 1..Len(cs) : cs[i] < 128

----------------------------------------------------------------------------
(* Python values handed to the API. *)

PyValue(kind, chars, n, hi) == [kind |-> kind, chars |-> chars, n |-> n, hi |-> hi]
PyNone == PyValue("none", <<>>, 0, 0)
PyBytes(b) == PyValue("bytes", b, 0, 0)
PyStr(s) == PyValue("str", s, 0, 0)
PyInt(n) == PyValue("int", <<>>, n, 0)
PyBigInt(hi, n) == PyValue("int", <<>>, n, hi)
\* a float that a C float holds exactly, by its IEEE-754 single bit pattern
PyFloat(bits) == PyValue("float", bits, 0, 0)
\* an object exporting a buffer: its bytes and the first character of its format
PyBuffer(bytes, fmt) == PyValue("buffer", bytes, fmt, 0)
PyCigar(words) == PyValue("cigar", words, 0, 0)

NoValue == PyNone

\* The outcome of a call: the exception raised ("" for none) and the value returned.
\* For to_bytes, bytes is the value returned and written the number of bytes the
\* serializer wrote; for an iterator step, oob tells whether it read the buffer
\* past its end; held is the number of buffer views the call acquired from its
\* argument and had not released when it returned.
Outcome(op, err, val, arg) ==
    [op |-> op, ok |-> (err = ""), err |-> err, val |-> val, arg |-> arg,
     bytes |-> <<>>, written |-> 0, oob |-> FALSE, held |-> 0]

NoArg == [tag |-> NoValue, type |-> NoValue, value |-> NoValue]

----------------------------------------------------------------------------
(* The BamRecord object: the 36 header bytes as fields, and five children. *)

\* What an operation on a record gives: the record afterwards, the exception
\* raised ("" for none), the value returned, and the number of buffer views
\* still held at the return.
Result(r, err, val) == [rec |-> r, err |-> err, val |-> val, held |-> 0]

\* ceil(l_seq / 2), as (l_seq + 1) / 2 is computed on uint32_t: 0 for 2^32 - 1.
EncodedLength(l_seq) == IF l_seq = -1 THEN 0 ELSE (l_seq + 1) \div 2

convert_to_new_bytes_reference(obj) ==
    CASE obj.kind = "none" -> [err |-> "", bytes |-> <<>>]
      [] obj.kind = "bytes" -> [err |-> "", bytes |-> obj.chars]
      [] obj.kind = "str" ->
            IF IsAscii(obj.chars) THEN [err |-> "", bytes |-> obj.chars]
            ELSE [err |-> "UnicodeEncodeError", bytes |-> <<>>]
      [] OTHER -> [err |-> "TypeError", bytes |-> <<>>]

\* l_read_name is a uint8_t: the assignment keeps the low 8 bits.
InitLReadName(read_name) == (Len(read_name) + 1) % 256

\* The block_size expression of BamRecord_init; 1 / 2 is integer division.
InitBlockSize(l_read_name, l_seq, n_cigar_op, tags) ==
    32 + l_read_name + (l_seq + (1 \div 2)) + l_seq + n_cigar_op * 4 + Len(tags)

BamRecord_init(a) ==
    LET conv == convert_to_new_bytes_reference(a.read_name)
        l_read_name == InitLReadName(conv.bytes)
    IN  IF conv.err # "" THEN [err |-> conv.err]
        ELSE [err |-> "",
              rec |-> [block_size |-> InitBlockSize(l_read_name, 0, 0, <<>>),
                       refID |-> a.reference_id,
                       pos |-> a.position,
                       l_read_name |-> l_read_name,
                       mapq |-> a.mapping_quality,
                       bin |-> 0,
                       n_cigar_op |-> 0,
                       flag |-> a.flag,
                       l_seq |-> 0,
                       next_refID |-> a.next_reference_id,
                       next_pos |-> a.next_position,
                       tlen |-> 0,
                       read_name |-> conv.bytes,
                       bamcigar |-> <<>>,
                       seq |-> <<>>,
                       qual |-> <<>>,
                       tags |-> <<>>]]

\* A _read_name setter that installs the name before it checks its length.
SetReadNameEager(self, v) ==
    LET size == Len(v.chars)
        l == ((size % 256) + 1) % 256
        r == [self EXCEPT !.read_name = v.chars, !.l_read_name = l,
                          !.block_size = self.block_size + l - self.l_read_name]
    IN  IF v.kind # "bytes" THEN Result(self, "TypeError", NoValue)
        ELSE IF size > 254 THEN Result(r, "ValueError", NoValue)
        ELSE Result(r, "", NoValue)

\* The _read_name setter (a bytes object).
BamRecord_set__read_name(self, v) ==
    IF v.kind # "bytes" THEN Result(self, "TypeError", NoValue)
    ELSE LET size == Len(v.chars)
             l == ((size % 256) + 1) % 256
         IN  IF size > 254 THEN Result(self, "ValueError", NoValue)
             ELSE Result([self EXCEPT
                            !.read_name = v.chars,
                            !.l_read_name = l,
                            !.block_size = self.block_size + l - self.l_read_name],
                         "", NoValue)

\* The read_name setter (a str): PyUnicode_AsASCIIString, then the bytes setter.
BamRecord_set_read_name(self, v) ==
    IF v.kind # "str" THEN Result(self, "TypeError", NoValue)
    ELSE IF ~IsAscii(v.chars) THEN Result(self, "UnicodeEncodeError", NoValue)
    ELSE BamRecord_set__read_name(self, PyBytes(v.chars))

BamRecord_set_tags(self, v) ==
    IF v.kind # "bytes" THEN Result(self, "TypeError", NoValue)
    ELSE Result([self EXCEPT
                   !.tags = v.chars,
                   !.block_size = self.block_size + Len(v.chars) - Len(self.tags)],
                "", NoValue)

\* The largest Py_SIZE the cigar setter lets through.
CigarSetterLimit == 65536

\* n_cigar_op is a uint16_t: the assignment keeps the low 16 bits.
BamRecord_set_cigar(self, v) ==
    IF v.kind # "cigar" THEN Result(self, "TypeError", NoValue)
    ELSE IF Len(v.chars) > CigarSetterLimit
         THEN Result(self, "NotImplementedError", NoValue)
    ELSE Result([self EXCEPT !.bamcigar = v.chars,
                             !.n_cigar_op = Len(v.chars) % 65536],
                "", NoValue)

----------------------------------------------------------------------------
(* The IUPAC codec. *)

\* "=ACMGRSVTWYHKDBN": the character of each 4-bit code 0..15.
IupacChars == << 61, 65, 67, 77, 71, 82, 83, 86, 84, 87, 89, 72, 75, 68, 66, 78 >>

\* nucleotide_to_number[c]: the code of an IUPAC character, -1 for any other.
\* The entry of the NUL character is 0: set_sequence reads the terminating NUL
\* as the second character of the last pair of an odd-length string, and the
\* low nibble of that byte is zero.
nucleotide_to_number(c) ==
    IF c = 0 THEN 0
    ELSE IF \E k \in 1..16 : IupacChars[k] = c
         THEN (CHOOSE k \in 1..16 : IupacChars[k] = c) - 1
         ELSE -1

\* number_to_nucleotide_pair_le[b]: the two characters a packed byte decodes to.
number_to_nucleotide_pair_le(b) == << IupacChars[(b \div 16) + 1], IupacChars[(b % 16) + 1] >>

\* The characters of a str as the encoder reads them: followed by a NUL.
CharAt(cs, i) == IF i <= Len(cs) THEN cs[i] ELSE 0

\* The pair loop of set_sequence over characters i, i+1 (1-based): the packed
\* bytes, or <<-1>> when a character is not in the table.
RECURSIVE EncodeFrom(_, _)
EncodeFrom(cs, i) ==
    IF i > Len(cs) THEN <<>>
    ELSE LET first == nucleotide_to_number(CharAt(cs, i))
             second == nucleotide_to_number(CharAt(cs, i + 1))
         IN  IF first = -1 \/ second = -1 THEN <<-1>>
             ELSE LET rest == EncodeFrom(cs, i + 2)
                  IN  IF rest = <<-1>> THEN <<-1>>
                      ELSE <<first * 16 + second>> \o rest

BamRecord_set_sequence(self, args) ==
    IF Len(args) # 1 /\ Len(args) # 2 THEN Result(self, "TypeError", NoValue)
    ELSE LET sequence == args[1] IN
    IF sequence.kind # "str" THEN Result(self, "TypeError", NoValue)
    ELSE IF ~IsAscii(sequence.chars) THEN Result(self, "ValueError", NoValue)
    ELSE LET sequence_length == Len(sequence.chars) IN
    IF Len(args) = 2 /\ args[2].kind # "bytes" THEN Result(self, "TypeError", NoValue)
    ELSE IF Len(args) = 2 /\ Len(args[2].chars) # sequence_length
         THEN Result(self, "ValueError", NoValue)
    ELSE LET new_qualities == IF Len(args) = 2 THEN args[2].chars
                              ELSE Fill(sequence_length, 255)
             encoded_length == (sequence_length + 1) \div 2
             encoded_sequence == EncodeFrom(sequence.chars, 1)
             old_l_seq == self.l_seq
             old_encoded_length == EncodedLength(self.l_seq)
         IN  IF encoded_sequence = <<-1>> THEN Result(self, "ValueError", NoValue)
             ELSE Result([self EXCEPT
                            !.seq = encoded_sequence,
                            !.qual = new_qualities,
                            !.l_seq = sequence_length,
                            !.block_size = self.block_size + sequence_length
                                + encoded_length - (old_l_seq + old_encoded_length)],
                         "", NoValue)

\* A get_sequence that gives every decoded pair, whatever l_seq says.
GetSequenceWholePairs(self) ==
    [i \in 1..(2 * Len(self.seq)) |->
       number_to_nucleotide_pair_le(self.seq[(i + 1) \div 2])[2 - (i % 2)]]

BamRecord_get_sequence(self) ==
    LET pairs == [i \in 1..(2 * Len(self.seq)) |->
                    number_to_nucleotide_pair_le(self.seq[(i + 1) \div 2])[2 - (i % 2)]]
    IN  Slice(pairs, 0, Min(self.l_seq, Len(pairs)))

----------------------------------------------------------------------------
(* The tag codec. *)

\* The value type characters of a tag entry.
TypeA == 65
TypeB == 66
TypeC == 67
TypeH == 72
TypeI == 73
TypeS == 83
TypeZ == 90
Typec == 99
Typed == 100
Typef == 102
Typei == 105
Types == 115

value_type_size(value_type) ==
    CASE value_type \in {TypeA, Typec, TypeC} -> 1
      [] value_type \in {Types, TypeS} -> 2
      [] value_type \in {Typef, Typei, TypeI} -> 4
      [] value_type = Typed -> 8
      [] OTHER -> 0

\* The format characters "b B h H i I f d" of Python's array types.
python_array_type_to_bam_type(fmt) ==
    CASE fmt = 98 -> Typec
      [] fmt = 66 -> TypeC
      [] fmt = 104 -> Types
      [] fmt = 72 -> TypeS
      [] fmt = 105 -> Typei
      [] fmt = 73 -> TypeI
      [] fmt = 102 -> Typef
      [] fmt = 100 -> Typed
      [] OTHER -> 0

bam_array_type_to_python_type(array_type) ==
    CASE array_type = Typec -> 98
      [] array_type = TypeC -> 66
      [] array_type = Types -> 104
      [] array_type = TypeS -> 72
      [] array_type = Typei -> 105
      [] array_type = TypeI -> 73
      [] array_type = Typef -> 102
      [] array_type = Typed -> 100
      [] OTHER -> 0

\* array_length * value_length on uint32_t, the count given by its four
\* little-endian bytes and the item size a power of two: the bits of the count
\* that the multiplication does not shift out, times the size.  The product is
\* "big" when it is 2^31 or more (more than any length of the model).
WrapMul32Big(count, size) == (count[4] % (256 \div size)) * size >= 128
WrapMul32(count, size) ==
    (count[1] + 256 * count[2] + 65536 * count[3]
       + 16777216 * (count[4] % (256 \div size))) * size

\* The offset of the first NUL in tags[from .. end), or -1: memchr.
RECURSIVE memchr0(_, _, _)
memchr0(tags, from, end) ==
    IF from >= end THEN -1
    ELSE IF tags[from + 1] = 0 THEN from
    ELSE memchr0(tags, from + 1, end)

TruncatedTag == "ValueError: truncated tag"
UnknownValueType == "ValueError: unknown value type"

\* The smallest span skip_tag takes for an entry: it reports spans of
\* MinEntrySpan bytes or fewer as truncated.
MinEntrySpan == 4

\* Offsets are 0-based, as the pointer differences from the start of the blob.
\* off = -1 stands for the NULL return, err for the exception set.
skip_tag(tags, start, end) ==
    IF start >= end THEN [off |-> end, err |-> ""]
    ELSE IF (end - start) <= MinEntrySpan THEN [off |-> -1, err |-> TruncatedTag]
    ELSE LET type == tags[start + 3]
             value_start == start + 3
         IN  CASE type \in {TypeH, TypeZ} ->
                    LET string_stop == memchr0(tags, value_start, end)
                    IN  IF string_stop = -1 THEN [off |-> -1, err |-> TruncatedTag]
                        ELSE [off |-> string_stop + 1, err |-> ""]
               [] type = TypeB ->
                    LET value_length == value_type_size(tags[start + 4])
                        count == Slice(tags, start + 4, 4)
                    IN  IF value_length = 0 THEN [off |-> -1, err |-> UnknownValueType]
                        ELSE IF start + 8 >= end THEN [off |-> -1, err |-> TruncatedTag]
                        ELSE IF WrapMul32Big(count, value_length)
                             THEN [off |-> -1, err |-> TruncatedTag]
                        ELSE IF start + 8 + WrapMul32(count, value_length) > end
                             THEN [off |-> -1, err |-> TruncatedTag]
                        ELSE [off |-> start + 8 + WrapMul32(count, value_length),
                              err |-> ""]
               [] OTHER ->
                    LET value_length == value_type_size(type)
                    IN  IF value_length = 0 THEN [off |-> -1, err |-> UnknownValueType]
                        ELSE IF value_start + value_length > end
                             THEN [off |-> -1, err |-> TruncatedTag]
                        ELSE [off |-> value_start + value_length, err |-> ""]

\* The loop of find_tag from tag_ptr on.  found = -1 stands for *found_tag = NULL.
RECURSIVE find_tag_from(_, _, _)
find_tag_from(tags, tag, tag_ptr) ==
    LET end_ptr == Len(tags) IN
    IF ~(tag_ptr < end_ptr) THEN [found |-> -1, err |-> ""]
    ELSE IF tag_ptr + 2 >= end_ptr THEN [found |-> -1, err |-> TruncatedTag]
    ELSE IF tags[tag_ptr + 1] = tag[1] /\ tags[tag_ptr + 2] = tag[2]
         THEN [found |-> tag_ptr, err |-> ""]
    ELSE LET next == skip_tag(tags, tag_ptr, end_ptr)
         IN  IF next.off = -1 THEN [found |-> -1, err |-> next.err]
             ELSE find_tag_from(tags, tag, next.off)

find_tag(tags, tag) == find_tag_from(tags, tag, 0)

\* PyLong_FromLong of the 32-bit pattern w read as an unsigned value.
PyLongFromU32(w) == IF w < 0 THEN PyBigInt(1, w) ELSE PyInt(w)

Signed8(b) == IF b >= 128 THEN b - 256 ELSE b
Signed16(h) == IF h >= 32768 THEN h - 65536 ELSE h

DecodeASCII(bytes) ==
    IF IsAscii(bytes) THEN [err |-> "", val |-> PyStr(bytes)]
    ELSE [err |-> "UnicodeDecodeError", val |-> NoValue]

\* The value of the entry at start, in a blob that ends at end.  A B entry gives
\* a memoryview: its bytes, with the format character of its items.
tag_ptr_to_pyobject(tags, start, end) ==
    LET trunc == [err |-> TruncatedTag, val |-> NoValue] IN
    IF start >= end THEN [err |-> "RuntimeError", val |-> NoValue]
    ELSE IF (end - start) < 4 THEN trunc
    ELSE LET type == tags[start + 3]
             value_start == start + 3
             max_length == end - value_start
         IN  CASE type = TypeA -> DecodeASCII(Slice(tags, value_start, 1))
               [] type = TypeZ ->
                    LET value_end == memchr0(tags, value_start, end)
                    IN  IF value_end = -1 THEN trunc
                        ELSE DecodeASCII(Slice(tags, value_start, value_end - value_start))
               [] type = Typec ->
                    [err |-> "", val |-> PyInt(Signed8(tags[value_start + 1]))]
               [] type = TypeC ->
                    [err |-> "", val |-> PyInt(tags[value_start + 1])]
               [] type = Types ->
                    IF max_length < 2 THEN trunc
                    ELSE [err |-> "",
                          val |-> PyInt(Signed16(DecodeLE16(Slice(tags, value_start, 2))))]
               [] type = TypeS ->
                    IF max_length < 2 THEN trunc
                    ELSE [err |-> "", val |-> PyInt(DecodeLE16(Slice(tags, value_start, 2)))]
               [] type = Typei ->
                    IF max_length < 4 THEN trunc
                    ELSE [err |-> "", val |-> PyInt(DecodeLE32(Slice(tags, value_start, 4)))]
               [] type = TypeI ->
                    IF max_length < 4 THEN trunc
                    ELSE [err |-> "",
                          val |-> PyLongFromU32(DecodeLE32(Slice(tags, value_start, 4)))]
               [] type = Typef ->
                    IF max_length < 4 THEN trunc
                    ELSE [err |-> "", val |-> PyFloat(Slice(tags, value_start, 4))]
               [] type = TypeB ->
                    IF max_length < 5 THEN trunc
                    ELSE LET array_type == tags[value_start + 1]
                             array_count == Slice(tags, value_start + 1, 4)
                             array_start == value_start + 5
                             array_max_length == end - array_start
                             itemsize == value_type_size(array_type)
                         IN  IF itemsize = 0
                             THEN [err |-> UnknownValueType, val |-> NoValue]
                             ELSE IF WrapMul32Big(array_count, itemsize) THEN trunc
                             ELSE IF WrapMul32(array_count, itemsize) > array_max_length
                                  THEN trunc
                             ELSE [err |-> "",
                                   val |-> PyBuffer(
                                       Slice(tags, array_start,
                                             WrapMul32(array_count, itemsize)),
                                       bam_array_type_to_python_type(array_type))]
               [] type = TypeH -> [err |-> "NotImplementedError", val |-> NoValue]
               [] OTHER -> [err |-> "ValueError: unknown tag type", val |-> NoValue]

NotFound == "LookupError"

\* The tag argument of get_tag and set_tag: a str of two ASCII characters.
CheckTagArgument(tag) ==
    IF tag.kind # "str" THEN "TypeError"
    ELSE IF ~IsAscii(tag.chars) THEN "ValueError"
    ELSE IF Len(tag.chars) # 2 THEN "ValueError"
    ELSE ""

BamRecord_get_tag(self, tag) ==
    IF CheckTagArgument(tag) # "" THEN [err |-> CheckTagArgument(tag), val |-> NoValue]
    ELSE LET f == find_tag(self.tags, tag.chars)
         IN  IF f.err # "" THEN [err |-> f.err, val |-> NoValue]
             ELSE IF f.found = -1 THEN [err |-> NotFound, val |-> NoValue]
             ELSE tag_ptr_to_pyobject(self.tags, f.found, Len(self.tags))

\* The registry of SAMtags: the value type of a tag name, <<>> for none.
tag_to_value_type(tag) ==
    CASE tag = <<84, 83>> -> <<TypeA>>
      [] tag \in { <<65, 77>>, <<65, 83>>, <<67, 77>>, <<67, 80>>, <<70, 73>>, <<72, 48>>,
                   <<72, 49>>, <<72, 50>>, <<72, 73>>, <<73, 72>>, <<77, 81>>, <<78, 72>>,
                   <<78, 77>>, <<79, 80>>, <<80, 81>>, <<83, 77>>, <<84, 67>>, <<85, 81>> } -> <<Typei>>
      [] tag \in { <<66, 67>>, <<66, 81>>, <<66, 90>>, <<67, 66>>, <<67, 67>>, <<67, 79>>,
                   <<67, 81>>, <<67, 82>>, <<67, 83>>, <<67, 84>>, <<67, 89>>, <<69, 50>>,
                   <<70, 83>>, <<76, 66>>, <<77, 67>>, <<77, 68>>, <<77, 73>>, <<77, 77>>,
                   <<79, 65>>, <<79, 67>>, <<79, 81>>, <<79, 88>>, <<80, 71>>, <<80, 84>>,
                   <<80, 85>>, <<81, 50>>, <<81, 84>>, <<81, 88>>, <<82, 50>>, <<82, 71>>,
                   <<82, 88>>, <<83, 65>>, <<85, 50>> } -> <<TypeZ>>
      [] tag = <<77, 76>> -> <<TypeB, TypeC>>
      [] tag = <<70, 90>> -> <<TypeB, TypeS>>
      [] tag = <<67, 71>> -> <<TypeB, TypeI>>
      [] OTHER -> <<>>

PyObject_to_value_type(value) ==
    CASE value.kind = "str" -> <<TypeZ>>
      [] value.kind = "int" -> <<TypeI>>
      [] value.kind = "float" -> <<Typef>>
      [] value.kind \in {"buffer", "bytes", "cigar"} -> <<TypeB>>
      [] OTHER -> <<>>

\* StorePyObjectValue_<type>: the little-endian bytes of an integer that fits the
\* type, <<>> (a size of 0, with an exception set) for any other value.
IntFits(value, value_type) ==
    /\ value.kind = "int"
    /\ CASE value_type = Typec -> value.hi = 0 /\ value.n >= -128 /\ value.n <= 127
         [] value_type = TypeC -> value.hi = 0 /\ value.n >= 0 /\ value.n <= 255
         [] value_type = Types -> value.hi = 0 /\ value.n >= -32768 /\ value.n <= 32767
         [] value_type = TypeS -> value.hi = 0 /\ value.n >= 0 /\ value.n <= 65535
         [] value_type = Typei -> value.hi = 0
         [] value_type = TypeI -> (value.hi = 0 /\ value.n >= 0) \/ (value.hi = 1 /\ value.n < 0)
         [] OTHER -> FALSE

StorePyObjectValue(value, value_type) ==
    IF ~IntFits(value, value_type) THEN <<>>
    ELSE Slice(LE32(value.n), 0, value_type_size(value_type))

\* (float)PyFloat_AsDouble(value): the single-precision pattern of a float, and of
\* the small integers __float__ converts; <<>> for a value that is no number.
FloatBits(value) ==
    CASE value.kind = "float" -> value.chars
      [] value.kind = "int" /\ value.hi = 0 /\ value.n = 0 -> <<0, 0, 0, 0>>
      [] value.kind = "int" /\ value.hi = 0 /\ value.n = 1 -> <<0, 0, 128, 63>>
      [] value.kind = "int" /\ value.hi = 0 /\ value.n = 2 -> <<0, 0, 0, 64>>
      [] OTHER -> <<>>

\* new_block_size > UINT32_MAX, for the size_t sum old_block_size + delta with
\* old_block_size a 32-bit pattern: the sum leaves 0 .. 2^32 - 1 exactly when
\* it falls below 0 (and wraps around 2^64) or reaches 2^32.
BlockSizeOverflows(old_block_size, delta) ==
    \/ old_block_size >= 0 /\ old_block_size + delta < 0
    \/ old_block_size < 0 /\ old_block_size + delta >= 0

\* Add, replace or delete a tag: the bytes before the old entry, the bytes
\* after it, the marker, the value.
_BamRecord_replace_tag(self, tag, tag_marker, tag_value) ==
    LET tags == self.tags
        tags_length == Len(tags)
        f == find_tag(tags, tag)
    IN  IF f.err # "" THEN Result(self, f.err, NoValue)
        ELSE
        LET after == IF f.found = -1 THEN [off |-> tags_length, err |-> ""]
                     ELSE skip_tag(tags, f.found, tags_length)
        IN  IF after.off = -1 THEN Result(self, after.err, NoValue)
            ELSE
            LET before_tag_length == IF f.found = -1 THEN tags_length ELSE f.found
                after_tag_length == IF f.found = -1 THEN 0 ELSE tags_length - after.off
                new_size == before_tag_length + after_tag_length
                              + Len(tag_marker) + Len(tag_value)
                delta == new_size - tags_length
            IN  IF BlockSizeOverflows(self.block_size, delta)
                THEN Result(self, "OverflowError", NoValue)
                ELSE Result([self EXCEPT
                               !.tags = Slice(tags, 0, before_tag_length)
                                          \o Slice(tags, after.off, after_tag_length)
                                          \o tag_marker \o tag_value,
                               !.block_size = self.block_size + delta],
                            "", NoValue)

\* The deletion the comment of _BamRecord_replace_tag describes:
\* tag_marker_length = 0 and tag_value_length = 0.
RemoveTag(self, tag) == _BamRecord_replace_tag(self, tag, <<>>, <<>>)

BufferOf(value) ==
    CASE value.kind = "buffer" -> [ok |-> TRUE, bytes |-> value.chars, fmt |-> value.n]
      [] value.kind = "bytes" -> [ok |-> TRUE, bytes |-> value.chars, fmt |-> 66]
      [] value.kind = "cigar" -> [ok |-> TRUE, bytes |-> WordsToBytes(value.chars), fmt |-> 73]
      [] OTHER -> [ok |-> FALSE, bytes |-> <<>>, fmt |-> 0]

\* array_type is value_type[1]: 0, the terminating NUL, for a one-letter type.
\* buffer.len % itemsize with itemsize 0 divides by zero: "SIGFPE".  The view
\* is released at the label error only; the return through
\* _BamRecord_replace_tag keeps it.
_BamRecord_set_array_tag(self, tag, array_type, value) ==
    LET buffer == BufferOf(value)
        tp == IF array_type # 0 THEN array_type
              ELSE python_array_type_to_bam_type(buffer.fmt)
        itemsize == value_type_size(tp)
    IN  IF ~buffer.ok THEN Result(self, "TypeError", NoValue)
        ELSE IF itemsize = 0 THEN Result(self, "SIGFPE", NoValue)
        ELSE IF Len(buffer.bytes) % itemsize # 0 THEN Result(self, "ValueError", NoValue)
        ELSE [_BamRecord_replace_tag(
                  self, tag,
                  tag \o <<TypeB, tp>> \o LE32(Len(buffer.bytes) \div itemsize),
                  buffer.bytes)
                EXCEPT !.held = 1]

_BamRecord_set_tag(self, tag, value_type, value) ==
    LET t == value_type[1]
        store(tag_value) ==
            IF tag_value = <<>> THEN Result(self, "ValueError: cannot store", NoValue)
            ELSE _BamRecord_replace_tag(self, tag, tag \o <<t>>, tag_value)
    IN  CASE t = TypeB ->
               _BamRecord_set_array_tag(
                   self, tag, IF Len(value_type) > 1 THEN value_type[2] ELSE 0, value)
          [] t \in {TypeA, TypeZ} ->
               IF value.kind # "str" THEN Result(self, "TypeError", NoValue)
               ELSE IF ~IsAscii(value.chars) THEN Result(self, "ValueError", NoValue)
               ELSE IF t = TypeA
                    THEN IF Len(value.chars) # 1 THEN Result(self, "ValueError", NoValue)
                         ELSE store(value.chars)
               ELSE store(value.chars \o <<0>>)
          [] t \in {Typec, TypeC, Types, TypeS, Typei, TypeI} ->
               store(StorePyObjectValue(value, t))
          [] t = Typef ->
               IF FloatBits(value) = <<>> THEN Result(self, "TypeError", NoValue)
               ELSE store(FloatBits(value))
          [] OTHER -> Result(self, "ValueError: unknown format", NoValue)

\* set_tag(tag, value, value_type): value_type is PyNone when it is not given.
BamRecord_set_tag(self, tag, value, value_type) ==
    IF CheckTagArgument(tag) # "" THEN Result(self, CheckTagArgument(tag), NoValue)
    ELSE IF value_type.kind \notin {"none", "str"} THEN Result(self, "TypeError", NoValue)
    ELSE IF value_type.kind = "str" /\ ~IsAscii(value_type.chars)
         THEN Result(self, "ValueError", NoValue)
    ELSE IF value_type.kind = "str" /\ Len(value_type.chars) \notin {1, 2}
         THEN Result(self, "ValueError", NoValue)
    ELSE LET vt == IF value_type.kind = "str" THEN value_type.chars
                   ELSE IF tag_to_value_type(tag.chars) # <<>>
                        THEN tag_to_value_type(tag.chars)
                   ELSE PyObject_to_value_type(value)
         IN  IF vt = <<>> THEN Result(self, "ValueError", NoValue)
             ELSE _BamRecord_set_tag(self, tag.chars, vt, value)

----------------------------------------------------------------------------
(* Serialization. *)

\* The 36 bytes from block_size to tlen, as the packed struct lies in memory.
HeaderBytes(self) ==
    LE32(self.block_size) \o LE32(self.refID) \o LE32(self.pos)
      \o <<self.l_read_name, self.mapq>> \o LE16(self.bin)
      \o LE16(self.n_cigar_op) \o LE16(self.flag) \o LE32(self.l_seq)
      \o LE32(self.next_refID) \o LE32(self.next_pos) \o LE32(self.tlen)

\* A serializer that leaves out the NUL after the read name.
ToPtrWithoutNul(self) ==
    HeaderBytes(self) \o self.read_name \o WordsToBytes(self.bamcigar)
      \o self.seq \o self.qual \o self.tags

\* The bytes BamRecord_to_ptr writes from dest on, in order.
BamRecord_to_ptr(self) ==
    HeaderBytes(self) \o self.read_name \o <<0>> \o WordsToBytes(self.bamcigar)
      \o self.seq \o self.qual \o self.tags

\* to_bytes allocates block_size + 4 bytes and lets BamRecord_to_ptr write into
\* them.  The value returned holds the first block_size + 4 bytes written; bytes
\* of it the serializer does not reach are uninitialized (junk); bytes written
\* beyond it land in memory the object does not own.  A block_size of 2^31 or
\* more asks for more memory than the model holds: MemoryError.
BamRecord_to_bytes(self, junk) ==
    LET size == self.block_size + 4
        stream == BamRecord_to_ptr(self)
    IN  IF self.block_size < 0
        THEN [err |-> "MemoryError", bytes |-> <<>>, written |-> 0]
        ELSE [err |-> "",
              bytes |-> [i \in 1..size |->
                            IF i <= Len(stream) THEN stream[i] ELSE junk],
              written |-> Len(stream)]

----------------------------------------------------------------------------
(* The iterator. *)

NoIterator == [buf |-> <<>>, pos |-> 0, len |-> 0, open |-> FALSE, starts |-> <<>>]

bam_iterator(obj) ==
    [buf |-> obj, pos |-> 0, len |-> Len(obj), open |-> TRUE, starts |-> <<>>]

\* n bytes from offset from of the buffer; a byte beyond the end of the buffer is
\* whatever lies in memory there (junk).
ReadBytes(buf, from, n, junk) ==
    [i \in 1..n |-> IF from + i <= Len(buf) THEN buf[from + i] ELSE junk]

\* The record whose 36 header bytes are h, with the given children.
RecordOfHeader(h, read_name, bamcigar, seq, qual, tags) ==
    [block_size |-> DecodeLE32(Slice(h, 0, 4)),
     refID |-> DecodeLE32(Slice(h, 4, 4)),
     pos |-> DecodeLE32(Slice(h, 8, 4)),
     l_read_name |-> h[13],
     mapq |-> h[14],
     bin |-> DecodeLE16(Slice(h, 14, 2)),
     n_cigar_op |-> DecodeLE16(Slice(h, 16, 2)),
     flag |-> DecodeLE16(Slice(h, 18, 2)),
     l_seq |-> DecodeLE32(Slice(h, 20, 4)),
     next_refID |-> DecodeLE32(Slice(h, 24, 4)),
     next_pos |-> DecodeLE32(Slice(h, 28, 4)),
     tlen |-> DecodeLE32(Slice(h, 32, 4)),
     read_name |-> read_name,
     bamcigar |-> bamcigar,
     seq |-> seq,
     qual |-> qual,
     tags |-> tags]

\* One step of the iterator: the iterator afterwards, the exception raised
\* ("StopIteration" at the end of the buffer) and the record returned.
\* record_length is block_size + 4 on uint32_t: it wraps to 0..3 for the four
\* largest values of block_size.  PyBytes_FromStringAndSize gives NULL for a
\* negative size; the step then ends in PyErr_NoMemory, after the position has
\* moved.  An l_seq of 2^31 or more makes the step copy more than 2 GiB from a
\* buffer that does not hold them: "SIGSEGV".
BamIterator_iternext(self, junk) ==
    LET fail(err) == [it |-> self, err |-> err, rec |-> <<>>, oob |-> FALSE] IN
    IF self.pos >= self.len THEN fail("StopIteration")
    ELSE IF (self.len - self.pos) < 36 THEN fail("EOFError")
    ELSE
    LET start_pos == self.pos
        h == Slice(self.buf, start_pos, 36)
        block_size == DecodeLE32(Slice(h, 0, 4))
        l_read_name == h[13]
        n_cigar_op == DecodeLE16(Slice(h, 16, 2))
        l_seq == DecodeLE32(Slice(h, 20, 4))
        record_length == block_size + 4
    IN
    IF record_length < 0 \/ start_pos + record_length > self.len THEN fail("EOFError")
    ELSE IF l_seq < 0 THEN fail("SIGSEGV")
    ELSE
    LET name_pos == start_pos + 36
        cigar_pos == name_pos + l_read_name
        seq_pos == cigar_pos + 4 * n_cigar_op
        seq_length == (l_seq + 1) \div 2
        qual_pos == seq_pos + seq_length
        tags_pos == qual_pos + l_seq
        tags_length == start_pos + record_length - tags_pos
        end_pos == tags_pos + tags_length
        moved == [self EXCEPT !.pos = end_pos]
        oob == \/ l_read_name > 1 /\ name_pos + l_read_name - 1 > self.len
               \/ n_cigar_op > 0 /\ seq_pos > self.len
               \/ seq_length > 0 /\ qual_pos > self.len
               \/ l_seq > 0 /\ tags_pos > self.len
    IN
    IF l_read_name = 0 \/ tags_length < 0
    THEN [it |-> moved, err |-> "MemoryError", rec |-> <<>>, oob |-> oob]
    ELSE [it |-> [moved EXCEPT !.starts = Append(self.starts, start_pos)],
          err |-> "",
          rec |-> RecordOfHeader(
                      h,
                      ReadBytes(self.buf, name_pos, l_read_name - 1, junk),
                      BytesToWords(ReadBytes(self.buf, cigar_pos, 4 * n_cigar_op, junk)),
                      ReadBytes(self.buf, seq_pos, seq_length, junk),
                      ReadBytes(self.buf, qual_pos, l_seq, junk),
                      ReadBytes(self.buf, tags_pos, tags_length, junk)),
          oob |-> oob]

----------------------------------------------------------------------------
(* The inputs the calls are made with. *)

Name254 == Fill(254, 65)
Name255 == Fill(255, 65)

InitArgs(reference_id, position, read_name, mapping_quality, flag) ==
    [reference_id |-> reference_id, position |-> position, read_name |-> read_name,
     mapping_quality |-> mapping_quality, flag |-> flag,
     next_reference_id |-> -1, next_position |-> -1]

DefaultArgs == InitArgs(-1, -1, PyNone, 255, 0)

ConstructInputs ==
    { DefaultArgs,
      InitArgs(-1, -1, PyBytes(<<114>>), 255, 4),
      InitArgs(3, 100, PyStr(<<113, 49>>), 30, 99),
      InitArgs(-1, -1, PyBytes(Name254), 255, 0),
      InitArgs(-1, -1, PyBytes(Name255), 255, 0),
      InitArgs(-1, -1, PyStr(<<233>>), 255, 0),
      InitArgs(-1, -1, PyInt(3), 255, 0) }

ReadNameInputs ==
    { PyBytes(<<>>), PyBytes(<<114>>), PyBytes(<<113, 49>>), PyBytes(Name254),
      PyBytes(Name255), PyStr(<<114>>) }

ReadNameStrInputs == { PyStr(<<114, 50>>), PyStr(<<233>>), PyBytes(<<114>>) }

\* Tag blobs: "", "XAA!", "XZZ\0", "NMi\3\0\0\0", "XBBC" with count 0,
\* "NMi\3\0\0\0XAc\377", two that end in the middle of an entry, and
\* "XABS" with count 2^31 followed by "NMi\3\0\0\0".
TagsInputs ==
    { PyBytes(<<>>),
      PyBytes(<<88, 65, 65, 33>>),
      PyBytes(<<88, 90, 90, 0>>),
      PyBytes(<<78, 77, 105, 3, 0, 0, 0>>),
      PyBytes(<<88, 66, 66, 67, 0, 0, 0, 0>>),
      PyBytes(<<78, 77, 105, 3, 0, 0, 0, 88, 65, 99, 255>>),
      PyBytes(<<78, 77, 105, 3>>),
      PyBytes(<<88>>),
      PyBytes(<<88, 65, 66, 83, 0, 0, 0, 128, 78, 77, 105, 3, 0, 0, 0>>),
      PyNone }

\* Cigars "", "1M", "0S1N", and a bytes object.
CigarInputs ==
    { PyCigar(<<>>), PyCigar(<<16>>), PyCigar(<<4, 19>>), PyBytes(<<16, 0, 0, 0>>) }

\* set_sequence arguments: "", "A", "AC", "ACG", "AC" with qualities, "AC" with
\* one quality, "AXC", "a", a non-ASCII str, bytes, qualities as str, no argument.
SequenceInputs ==
    { << PyStr(<<>>) >>, << PyStr(<<65>>) >>, << PyStr(<<65, 67>>) >>,
      << PyStr(<<65, 67, 71>>) >>,
      << PyStr(<<65, 67>>), PyBytes(<<30, 31>>) >>,
      << PyStr(<<65, 67>>), PyBytes(<<30>>) >>,
      << PyStr(<<65, 88, 67>>) >>, << PyStr(<<97>>) >>, << PyStr(<<65, 233>>) >>,
      << PyBytes(<<65>>) >>, << PyStr(<<65>>), PyStr(<<33>>) >>, << >> }

TagNM == PyStr(<<78, 77>>)
TagXA == PyStr(<<88, 65>>)
TagML == PyStr(<<77, 76>>)

SetTagArgs(tag, value, value_type) == [tag |-> tag, value |-> value, type |-> value_type]

\* set_tag calls with a supported type and a value in its range.
SupportedSetTagInputs ==
    { SetTagArgs(TagNM, PyInt(3), PyNone),
      SetTagArgs(TagXA, PyStr(<<33>>), PyStr(<<TypeA>>)),
      SetTagArgs(TagXA, PyStr(<<>>), PyStr(<<TypeZ>>)),
      SetTagArgs(TagNM, PyStr(<<49, 48, 65>>), PyStr(<<TypeZ>>)),
      SetTagArgs(TagXA, PyInt(-1), PyStr(<<Typec>>)),
      SetTagArgs(TagXA, PyInt(255), PyStr(<<TypeC>>)),
      SetTagArgs(TagXA, PyInt(-2), PyStr(<<Types>>)),
      SetTagArgs(TagXA, PyInt(65535), PyStr(<<TypeS>>)),
      SetTagArgs(TagXA, PyInt(-1), PyStr(<<Typei>>)),
      SetTagArgs(TagXA, PyBigInt(1, -1), PyStr(<<TypeI>>)),
      SetTagArgs(TagXA, PyInt(7), PyNone),
      SetTagArgs(TagXA, PyFloat(<<0, 0, 128, 63>>), PyNone),
      SetTagArgs(TagXA, PyBuffer(<<10, 200, 30>>, 66), PyStr(<<TypeB, TypeC>>)),
      SetTagArgs(TagML, PyBuffer(<<>>, 66), PyNone) }

\* set_tag calls that are refused: a value of the wrong kind, of the wrong
\* length, out of range, a buffer that is no multiple of the item size, a name
\* of one letter, an unknown type, a type of three letters, no usable value.
RefusedSetTagInputs ==
    { SetTagArgs(TagXA, PyInt(3), PyStr(<<TypeZ>>)),
      SetTagArgs(TagXA, PyStr(<<97, 98>>), PyStr(<<TypeA>>)),
      SetTagArgs(TagXA, PyInt(256), PyStr(<<TypeC>>)),
      SetTagArgs(TagXA, PyStr(<<51>>), PyStr(<<Typei>>)),
      SetTagArgs(TagXA, PyBuffer(<<1, 2, 3>>, 73), PyStr(<<TypeB, TypeI>>)),
      SetTagArgs(TagXA, PyStr(<<51>>), PyStr(<<Typef>>)),
      SetTagArgs(PyStr(<<88>>), PyInt(3), PyNone),
      SetTagArgs(TagXA, PyInt(3), PyStr(<<Typed>>)),
      SetTagArgs(TagXA, PyInt(3), PyStr(<<TypeB, TypeC, TypeC>>)),
      SetTagArgs(TagXA, PyNone, PyNone) }

SetTagInputs == SupportedSetTagInputs \cup RefusedSetTagInputs

TagNames == { TagNM, TagXA, TagML }

GetTagInputs == TagNames \cup { PyStr(<<88>>), PyBytes(<<78, 77>>) }

\* What uninitialized memory, or memory beyond a buffer, may hold.
JunkBytes == { 0, 170 }

\* No BamCigar, BamBlockBuffer or VirtualFileOffset has been made.
InitOthers ==
    /\ cigar = PyNone
    /\ bbuf = [buffersize |-> 0, pos |-> 0, buffer |-> <<>>]
    /\ vfo = PyNone

----------------------------------------------------------------------------
(* The calls on one record. *)

Init ==
    /\ rec = BamRecord_init(DefaultArgs).rec
    /\ prev = rec
    /\ res = Outcome("init", "", NoValue, NoArg)
    /\ nops = 0
    /\ recs = <<>>
    /\ data = <<>>
    /\ it = NoIterator
    /\ yielded = <<>>
    /\ InitOthers

\* A mutating call with result r.
Call(op, r, arg) ==
    /\ rec' = r.rec
    /\ prev' = rec
    /\ res' = [Outcome(op, r.err, r.val, arg) EXCEPT !.held = r.held]
    /\ nops' = nops + 1
    /\ UNCHANGED <<recs, data, it, yielded, others>>

\* BamRecord(...): a new record replaces the one under test; when __init__ raises
\* there is no new record.
Construct ==
    \E a \in ConstructInputs :
        LET r == BamRecord_init(a) IN
        /\ rec' = IF r.err = "" THEN r.rec ELSE rec
        /\ prev' = rec'
        /\ res' = Outcome("init", r.err, NoValue, [NoArg EXCEPT !.value = a.read_name])
        /\ UNCHANGED <<nops, recs, data, it, yielded, others>>

SetReadName ==
    \E v \in ReadNameInputs :
        /\ nops < MaxOps
        /\ Call("set__read_name", BamRecord_set__read_name(rec, v), NoArg)

SetReadNameStr ==
    \E v \in ReadNameStrInputs :
        /\ nops < MaxOps
        /\ Call("set_read_name", BamRecord_set_read_name(rec, v), NoArg)

SetTags ==
    \E v \in TagsInputs :
        /\ nops < MaxOps
        /\ Call("set_tags", BamRecord_set_tags(rec, v), NoArg)

SetCigar ==
    \E v \in CigarInputs :
        /\ nops < MaxOps
        /\ Call("set_cigar", BamRecord_set_cigar(rec, v), [NoArg EXCEPT !.value = v])

SetSequence ==
    \E args \in SequenceInputs :
        /\ nops < MaxOps
        /\ Call("set_sequence", BamRecord_set_sequence(rec, args), NoArg)

SetTag ==
    \E a \in SetTagInputs :
        /\ nops < MaxOps
        /\ Call("set_tag", BamRecord_set_tag(rec, a.tag, a.value, a.type), a)

Remove ==
    \E t \in TagNames :
        /\ nops < MaxOps
        /\ Call("remove_tag", RemoveTag(rec, t.chars), [NoArg EXCEPT !.tag = t])

\* A call that reads the record.
Read(outcome) ==
    /\ res' = outcome
    /\ prev' = rec
    /\ UNCHANGED <<rec, nops, recs, data, it, yielded, others>>

GetTag ==
    \E t \in GetTagInputs :
        LET g == BamRecord_get_tag(rec, t)
        IN  /\ TRUE
            /\ Read(Outcome("get_tag", g.err, g.val, [NoArg EXCEPT !.tag = t]))

ToBytes ==
    \E junk \in JunkBytes :
        LET b == BamRecord_to_bytes(rec, junk)
        IN  /\ TRUE
            /\ Read([Outcome("to_bytes", b.err, NoValue, NoArg) EXCEPT
                       !.bytes = b.bytes, !.written = b.written])

Next ==
    \/ Construct
    \/ SetReadName
    \/ SetReadNameStr
    \/ SetTags
    \/ SetCigar
    \/ SetSequence
    \/ SetTag
    \/ Remove
    \/ GetTag
    \/ ToBytes

Spec == Init /\ [][Next]_vars

----------------------------------------------------------------------------
(* A list of records, serialized into one buffer and iterated. *)

\* The record is appended to the list, and its to_bytes() to the buffer.
AppendRecord ==
    \E junk \in JunkBytes :
        LET b == BamRecord_to_bytes(rec, junk)
        IN  /\ ~it.open
            /\ Len(recs) < MaxRecords
            /\ b.err = ""
            /\ recs' = Append(recs, rec)
            /\ data' = data \o b.bytes
            /\ res' = [Outcome("to_bytes", b.err, NoValue, NoArg) EXCEPT
                          !.bytes = b.bytes, !.written = b.written]
            /\ prev' = rec
            /\ UNCHANGED <<rec, nops, it, yielded, others>>

\* bam_iterator(data), once the last record of the list is appended.
IterOpen ==
    /\ ~it.open
    /\ res.op = "to_bytes"
    /\ Len(recs) >= 1
    /\ it' = bam_iterator(data)
    /\ yielded' = <<>>
    /\ res' = Outcome("bam_iterator", "", NoValue, NoArg)
    /\ prev' = rec
    /\ UNCHANGED <<rec, nops, recs, data, others>>

\* next(iterator): the record returned is the one the later calls act on.
IterNext ==
    \E junk \in JunkBytes :
        LET r == BamIterator_iternext(it, junk)
        IN  /\ it.open
            /\ it' = r.it
            /\ rec' = IF r.err = "" THEN r.rec ELSE rec
            /\ prev' = rec'
            /\ yielded' = IF r.err = "" THEN Append(yielded, r.rec) ELSE yielded
            /\ res' = [Outcome("next", r.err, NoValue, NoArg) EXCEPT !.oob = r.oob]
            /\ UNCHANGED <<nops, recs, data, others>>

\* The list is built while it holds fewer than MaxRecords records.
Building == ~it.open /\ Len(recs) < MaxRecords

NextRoundTrip ==
    \/ Building /\ Construct
    \/ Building /\ SetTags
    \/ Building /\ SetCigar
    \/ Building /\ SetSequence
    \/ AppendRecord
    \/ IterOpen
    \/ IterNext

SpecRoundTrip == Init /\ [][NextRoundTrip]_vars

----------------------------------------------------------------------------
(* The cigar setter, with cigars of 65535 operations and more. *)

\* Cigars of 0, 1, 65535, 65536 and 65537 operations.
LongCigarInputs ==
    { PyCigar(<<>>), PyCigar(<<16>>), PyCigar(Fill(CigarSetterLimit - 1, 16)),
      PyCigar(Fill(CigarSetterLimit, 16)), PyCigar(Fill(CigarSetterLimit + 1, 16)) }

SetLongCigar ==
    \E v \in LongCigarInputs :
        /\ nops < MaxOps
        /\ Call("set_cigar", BamRecord_set_cigar(rec, v), [NoArg EXCEPT !.value = v])

NextLongCigar ==
    \/ Construct
    \/ SetReadName
    \/ SetLongCigar

SpecLongCigar == Init /\ [][NextLongCigar]_vars

----------------------------------------------------------------------------
(* The wire format, as the specification words it. *)

Ceil2(n) == (n + 1) \div 2

\* The block_size the layout of a record asks for.
LayoutBlockSize(r) ==
    32 + r.l_read_name + 4 * r.n_cigar_op + Ceil2(r.l_seq) + r.l_seq + Len(r.tags)

\* The bytes of a record in wire order: the 36 bytes of block_size and the fixed
\* header, the name, a NUL, the cigar words, the packed bases, the qualities,
\* the tags.
WireBytes(r) ==
    LE32(r.block_size) \o LE32(r.refID) \o LE32(r.pos) \o <<r.l_read_name, r.mapq>>
      \o LE16(r.bin) \o LE16(r.n_cigar_op) \o LE16(r.flag) \o LE32(r.l_seq)
      \o LE32(r.next_refID) \o LE32(r.next_pos) \o LE32(r.tlen)
      \o r.read_name \o <<0>> \o WordsToBytes(r.bamcigar) \o r.seq \o r.qual \o r.tags

\* The payload sizes of the table of value types; 0 for a type without a fixed size.
PayloadSize(type) ==
    CASE type \in {TypeA, Typec, TypeC} -> 1
      [] type \in {Types, TypeS} -> 2
      [] type \in {Typei, TypeI, Typef} -> 4
      [] type = Typed -> 8
      [] OTHER -> 0

\* The offset just past the first NUL at or after offset p, or -1.
RECURSIVE PastNul(_, _)
PastNul(blob, p) ==
    IF p >= Len(blob) THEN -1
    ELSE IF blob[p + 1] = 0 THEN p + 1
    ELSE PastNul(blob, p + 1)

\* The offset just past the entry that starts at offset p; -1 when the blob ends
\* in the middle of that entry, or the entry has no type of the table.
EntryEnd(blob, p) ==
    IF p + 3 > Len(blob) THEN -1
    ELSE LET type == blob[p + 3] IN
         CASE type \in {TypeZ, TypeH} -> PastNul(blob, p + 3)
           [] type = TypeB ->
                IF p + 8 > Len(blob) THEN -1
                ELSE LET size == PayloadSize(blob[p + 4])
                         count == DecodeLE32(Slice(blob, p + 4, 4))
                     IN  IF size = 0 \/ blob[p + 4] \in {TypeA, Typed} THEN -1
                         ELSE IF count < 0 \/ count > Len(blob) THEN -1
                         ELSE IF p + 8 + count * size > Len(blob) THEN -1
                         ELSE p + 8 + count * size
           [] OTHER ->
                IF PayloadSize(type) = 0 \/ p + 3 + PayloadSize(type) > Len(blob) THEN -1
                ELSE p + 3 + PayloadSize(type)

\* The blob is a concatenation of complete entries from offset p on.
RECURSIVE WellFormedFrom(_, _)
WellFormedFrom(blob, p) ==
    IF p = Len(blob) THEN TRUE
    ELSE IF EntryEnd(blob, p) = -1 THEN FALSE
    ELSE WellFormedFrom(blob, EntryEnd(blob, p))

WellFormedTags(blob) == WellFormedFrom(blob, 0)

\* The names of the entries of a well-formed blob from offset p on.
RECURSIVE EntryNamesFrom(_, _)
EntryNamesFrom(blob, p) ==
    IF p >= Len(blob) \/ EntryEnd(blob, p) = -1 THEN {}
    ELSE {Slice(blob, p, 2)} \cup EntryNamesFrom(blob, EntryEnd(blob, p))

EntryNames(blob) == EntryNamesFrom(blob, 0)

Mutators ==
    { "set__read_name", "set_read_name", "set_tags", "set_cigar", "set_sequence",
      "set_tag", "remove_tag" }

\* The set_tag calls of SupportedSetTagInputs with a value of type A, Z, c, C, s,
\* S, i or I.
ScalarSetTagInputs == { a \in SupportedSetTagInputs : a.value.kind \in {"int", "str"} }

\* The record of a blob at offset p is valid: the buffer holds its 36 header
\* bytes and its 4 + block_size bytes, block_size covers what the counters of
\* the header ask for, and the read name is at least its NUL, which closes it.
ValidBlobAt(buf, p) ==
    /\ p + 36 <= Len(buf)
    /\ LET block_size == DecodeLE32(Slice(buf, p, 4))
           l_read_name == buf[p + 13]
           n_cigar_op == DecodeLE16(Slice(buf, p + 16, 2))
           l_seq == DecodeLE32(Slice(buf, p + 20, 4))
       IN  /\ block_size >= 32
           /\ p + 4 + block_size <= Len(buf)
           /\ l_seq >= 0
           /\ l_seq <= Len(buf)
           /\ block_size >= 32 + l_read_name + 4 * n_cigar_op + Ceil2(l_seq) + l_seq
           /\ l_read_name >= 1
           /\ buf[p + 36 + l_read_name] = 0

----------------------------------------------------------------------------
(* Buffers given to the iterator, and the records parsed from them serialized. *)

\* A record with the given children and the counters and block_size they ask for.
RecordOf(read_name, bamcigar, l_seq, tags) ==
    LET r == [block_size |-> 0, refID |-> 1, pos |-> 258, l_read_name |-> Len(read_name) + 1,
              mapq |-> 60, bin |-> 4681, n_cigar_op |-> Len(bamcigar), flag |-> 16,
              l_seq |-> l_seq, next_refID |-> -1, next_pos |-> -1, tlen |-> -70000,
              read_name |-> read_name, bamcigar |-> bamcigar,
              seq |-> [i \in 1..Ceil2(l_seq) |-> IF 2 * i <= l_seq THEN 18 ELSE 64],
              qual |-> [i \in 1..l_seq |-> 29 + i], tags |-> tags]
    IN  [r EXCEPT !.block_size = LayoutBlockSize(r)]

ParsedRecords ==
    { RecordOf(read_name, bamcigar, l_seq, tags) :
        read_name \in { <<>>, <<114>>, <<113, 0, 49>> },
        bamcigar \in { <<>>, <<16>>, <<4, -1>> },
        l_seq \in 0..MaxSeqLen,
        tags \in { <<>>, <<88, 65, 65, 33>>, <<78, 77, 105, 3, 0, 0, 0, 88>> } }

\* The blob with byte b at offset p (0-based).
WithByte(blob, p, b) == [blob EXCEPT ![p + 1] = b]

\* Valid blobs; two valid blobs one after the other; and blobs that are not
\* valid: without the NUL of the name, with an l_read_name of 0, with a
\* block_size one short of the counters, cut one byte short, cut inside the
\* header, and followed by three stray bytes; the first 10 bytes of a blob; a
\* blob with a block_size of 2^32 - 1 and of 2^32 - 4; a blob with a byte above
\* 127 in the name; a blob with an l_seq of 200 and one with an n_cigar_op of 9.
ParseInputs ==
    LET valid == { WireBytes(r) : r \in ParsedRecords }
        few == { WireBytes(r) : r \in { q \in ParsedRecords : q.tags = <<>> /\ q.l_seq <= 1 } }
    IN  valid
          \cup { a \o b : a \in few, b \in { WireBytes(RecordOf(<<113>>, <<32>>, 3, <<>>)) } }
          \cup { WithByte(a, 36 + a[13] - 1, 65) : a \in few }
          \cup { WithByte(a, 12, 0) : a \in few }
          \cup { WithByte(a, 0, a[1] - 1) : a \in few }
          \cup { Slice(a, 0, Len(a) - 1) : a \in few }
          \cup { Slice(a, 0, 20) : a \in few }
          \cup { a \o <<1, 2, 3>> : a \in few }
          \cup { Slice(a, 0, 10) : a \in few }
          \cup { <<b, 255, 255, 255>> \o Slice(a, 4, Len(a) - 4) : a \in few, b \in {252, 255} }
          \cup { WithByte(a, 36, 233) : a \in { q \in valid : q[13] > 1 } }
          \cup { WithByte(a, 20, 200) : a \in few }
          \cup { WithByte(a, 16, 9) : a \in few }

InitParse ==
    /\ rec = BamRecord_init(DefaultArgs).rec
    /\ prev = rec
    /\ res = Outcome("init", "", NoValue, NoArg)
    /\ nops = 0
    /\ recs = <<>>
    /\ data \in ParseInputs
    /\ it = bam_iterator(data)
    /\ yielded = <<>>
    /\ InitOthers

\* The read-only members named after the fields of the BAM header, as the
\* member table of each of the two BamRecord types gives them: the value read
\* at the offset of the entry, T_UINT as an unsigned number.  The table of
\* pybam has offsetof(BamRecord, bin) in the entry of _n_cigar_op.
BamRecord_members(variant, self) ==
    [_block_size |-> PyLongFromU32(self.block_size),
     _refID |-> PyInt(self.refID),
     _pos |-> PyInt(self.pos),
     _l_read_name |-> PyInt(self.l_read_name),
     _mapq |-> PyInt(self.mapq),
     _bin |-> PyInt(self.bin),
     _n_cigar_op |-> PyInt(IF variant = "pybam" THEN self.bin ELSE self.n_cigar_op),
     _flag |-> PyInt(self.flag),
     _l_seq |-> PyLongFromU32(self.l_seq),
     _next_refID |-> PyInt(self.next_refID),
     _next_pos |-> PyInt(self.next_pos),
     _tlen |-> PyInt(self.tlen)]

\* A member of the record the iterator returned last, read through the type of
\* htspy or of pybam.
ReadMember ==
    /\ yielded # <<>>
    /\ \E variant \in {"htspy", "pybam"}, name \in DOMAIN BamRecord_members("htspy", rec) :
           Read(Outcome("member", "", BamRecord_members(variant, rec)[name],
                        [variant |-> variant, name |-> name]))

NextParse ==
    \/ IterNext
    \/ ToBytes
    \/ ReadMember

SpecParse == InitParse /\ [][NextParse]_vars

----------------------------------------------------------------------------
(* The properties of one record. *)

\* C1: after the constructor and after every mutator, block_size is
\* 32 + l_read_name + 4 * n_cigar_op + ceil(l_seq / 2) + l_seq + len(tags).
BlockSizeMatchesLayout == rec.block_size = LayoutBlockSize(rec)

\* C2: the length counters match the children: l_read_name is len(read_name) + 1
\* and at most 255, n_cigar_op is the number of cigar operations, seq holds
\* ceil(l_seq / 2) bytes and qual holds l_seq bytes.
CountersMatchChildren ==
    /\ rec.l_read_name = Len(rec.read_name) + 1
    /\ rec.l_read_name <= 255
    /\ rec.n_cigar_op = Len(rec.bamcigar)
    /\ Len(rec.seq) = Ceil2(rec.l_seq)
    /\ Len(rec.qual) = rec.l_seq

\* C5: to_bytes returns exactly 4 + block_size bytes, the record in wire order,
\* and the serializer writes no byte past the 4 + block_size bytes allocated.
ToBytesGivesWireBytes ==
    res.op = "to_bytes" =>
        /\ res.ok
        /\ Len(res.bytes) = 4 + rec.block_size
        /\ res.bytes = WireBytes(rec)
        /\ res.written <= 4 + rec.block_size

\* C6: when a mutator fails, every field and child of the record is the same
\* as before the call.
FailedMutatorChangesNothing ==
    (res.op \in Mutators /\ ~res.ok) => rec = prev

\* A _read_name setter has refused a name of more than 254 bytes on a record
\* that holds another name.
RefusedReadNameReached ==
    /\ res.op = "set__read_name"
    /\ res.err = "ValueError"
    /\ Len(rec.read_name) \in 1..254
    /\ rec = prev

\* C7: on a record with a well-formed tag blob, set_tag of a supported type and
\* value succeeds and get_tag of the same name then returns the value.
SetThenGetReturnsValue ==
    (res.op = "set_tag" /\ res.arg \in ScalarSetTagInputs /\ WellFormedTags(prev.tags)) =>
        /\ res.ok
        /\ BamRecord_get_tag(rec, res.arg.tag) = [err |-> "", val |-> res.arg.value]

\* C8: on a well-formed tag blob, get_tag of a name that is not in the blob
\* reports NotFound; TruncatedTag is raised only for a blob that ends in the
\* middle of an entry.
AbsentNameIsNotFound ==
    (res.op = "get_tag" /\ CheckTagArgument(res.arg.tag) = "" /\ WellFormedTags(rec.tags)) =>
        /\ res.arg.tag.chars \notin EntryNames(rec.tags) => res.err = NotFound
        /\ res.err # TruncatedTag

\* C9: on a record with a well-formed tag blob without the name, set_tag of a
\* supported type and value succeeds, removing the name then succeeds, restores
\* len(tags) and block_size, and get_tag of the name reports NotFound.
SetThenRemoveRestores ==
    (/\ res.op = "set_tag"
     /\ res.arg \in SupportedSetTagInputs
     /\ WellFormedTags(prev.tags)
     /\ res.arg.tag.chars \notin EntryNames(prev.tags)) =>
        /\ res.ok
        /\ LET removed == RemoveTag(rec, res.arg.tag.chars)
           IN  /\ removed.err = ""
               /\ Len(removed.rec.tags) = Len(prev.tags)
               /\ removed.rec.block_size = prev.block_size
               /\ BamRecord_get_tag(removed.rec, res.arg.tag).err = NotFound

----------------------------------------------------------------------------
(* The properties of serializing and iterating. *)

\* C3: iterating the concatenated to_bytes() of a list of records yields as
\* many records as the list holds, in the same order, each equal to the
\* original in every field and child, and then the end of the stream.
IterationYieldsTheRecords ==
    it.open =>
        /\ Len(yielded) <= Len(recs)
        /\ \A i \in 1..Len(yielded) : i <= Len(recs) => yielded[i] = recs[i]
        /\ (res.op = "next") => (res.err \in {"", "StopIteration"})
        /\ (res.op = "next" /\ res.err = "StopIteration") => (yielded = recs)

\* The offset in the buffer of the record the iterator returned last.
LastStart == it.starts[Len(it.starts)]

\* C4: for a valid record blob, to_bytes() of the record the iterator parsed
\* from it returns the bytes of the blob.
SerializedParseIsBlob ==
    (res.op = "to_bytes" /\ it.starts # <<>> /\ ValidBlobAt(it.buf, LastStart)) =>
        /\ res.ok
        /\ res.bytes = Slice(it.buf, LastStart, 4 + DecodeLE32(Slice(it.buf, LastStart, 4)))

\* The second record of a buffer, with a name, a cigar, an odd number of bases
\* and tags, has been parsed and serialized.
SecondBlobSerialized ==
    /\ res.op = "to_bytes"
    /\ Len(it.starts) = 2
    /\ ValidBlobAt(it.buf, LastStart)
    /\ rec = yielded[2]
    /\ rec.read_name # <<>>
    /\ rec.n_cigar_op > 0
    /\ rec.l_seq % 2 = 1

\* C10: the cigar setter reports NotSupported and installs nothing for a Cigar
\* of more than 65535 operations; after a Cigar it accepts, n_cigar_op is the
\* number of operations of the installed Cigar.
LongCigarRefused ==
    (res.op = "set_cigar" /\ res.arg.value.kind = "cigar") =>
        /\ (Len(res.arg.value.chars) > 65535) =>
               (res.err = "NotImplementedError" /\ rec = prev)
        /\ res.ok => (rec.bamcigar = res.arg.value.chars /\ rec.n_cigar_op = Len(rec.bamcigar))

----------------------------------------------------------------------------
(* The cigar getter. *)

\* The operation of a cigar word (its low 4 bits) and its run length (its upper
\* 28 bits), the word a 32-bit pattern.
bam_cigar_op(w) == w % 16
bam_cigar_oplen(w) == IF w >= 0 THEN w \div 16 ELSE (w \div 16) + 268435456

\* The operation code of S in "MIDNSHP=XB".
BAM_CSOFT_CLIP == 4

BamRecord_get_cigar(self) ==
    IF /\ self.n_cigar_op = 2
       /\ bam_cigar_op(self.bamcigar[1]) = BAM_CSOFT_CLIP
       /\ bam_cigar_oplen(self.bamcigar[1]) = self.l_seq
    THEN [err |-> "NotImplementedError", val |-> NoValue]
    ELSE [err |-> "", val |-> PyCigar(self.bamcigar)]

\* Cigars "0S1N", "2S1N", "1M2S", "2S", and one CG tag of type B I: "CGBI" with
\* count 1 and the word 1M.
PlaceholderCigarInputs ==
    { PyCigar(<<4, 19>>), PyCigar(<<36, 19>>), PyCigar(<<16, 36>>), PyCigar(<<36>>) }

TagCG == PyStr(<<67, 71>>)

CGTagInputs ==
    { SetTagArgs(TagCG, PyBuffer(<<16, 0, 0, 0>>, 73), PyNone),
      SetTagArgs(TagNM, PyInt(3), PyNone) }

SetPlaceholderCigar ==
    \E v \in PlaceholderCigarInputs :
        /\ nops < MaxOps
        /\ Call("set_cigar", BamRecord_set_cigar(rec, v), [NoArg EXCEPT !.value = v])

SetTagCG ==
    \E a \in CGTagInputs :
        /\ nops < MaxOps
        /\ Call("set_tag", BamRecord_set_tag(rec, a.tag, a.value, a.type), a)

GetCigar ==
    LET g == BamRecord_get_cigar(rec)
    IN  /\ TRUE
        /\ Read(Outcome("get_cigar", g.err, g.val, NoArg))

NextGetCigar ==
    \/ SetSequence
    \/ SetPlaceholderCigar
    \/ SetTagCG
    \/ GetCigar

SpecGetCigar == Init /\ [][NextGetCigar]_vars

\* The well-formed blob holds, from offset p on, an entry with the name, of
\* type B with the given item type.
RECURSIVE HasArrayEntryFrom(_, _, _, _)
HasArrayEntryFrom(blob, p, name, subtype) ==
    IF p >= Len(blob) \/ EntryEnd(blob, p) = -1 THEN FALSE
    ELSE \/ /\ Slice(blob, p, 2) = name
            /\ blob[p + 3] = TypeB
            /\ blob[p + 4] = subtype
         \/ HasArrayEntryFrom(blob, EntryEnd(blob, p), name, subtype)

HasCGTag(r) == HasArrayEntryFrom(r.tags, 0, <<67, 71>>, TypeI)

\* C11: when the tags hold no CG entry of type B I, the cigar getter returns the
\* cigar of the record and raises no error, also for a cigar of two operations
\* whose first is a soft-clip of length l_seq.
CigarReturnedWithoutCGTag ==
    (res.op = "get_cigar" /\ ~HasCGTag(rec)) =>
        (res.ok /\ res.val = PyCigar(rec.bamcigar))

----------------------------------------------------------------------------
(* The BamCigar object: a sequence of 32-bit words. *)

BAM_CIGAR_MAX_COUNT == 268435455
BAM_CIGAR_MAX_OP == 9

\* "MIDNSHP=XB": the letter of each operation 0..9.
CigarOpChars == << 77, 73, 68, 78, 83, 72, 80, 61, 88, 66 >>

\* bam_cigar_table[c]: the operation of a letter, -1 for any other character.
bam_cigar_table(c) ==
    IF \E k \in 1..10 : CigarOpChars[k] = c
    THEN (CHOOSE k \in 1..10 : CigarOpChars[k] = c) - 1
    ELSE -1

\* bam_cigar_opchr(w): the letter of the operation of a word.  The letters end
\* at operation 9; for 10..15 the character is whatever the table holds behind
\* them (junk).
bam_cigar_opchr(w, junk) ==
    IF bam_cigar_op(w) <= BAM_CIGAR_MAX_OP THEN CigarOpChars[bam_cigar_op(w) + 1]
    ELSE junk

\* bam_cigar_gen(count, op) stored in a uint32_t: (count << 4 | op) modulo 2^32,
\* which keeps the low 28 bits of count.
bam_cigar_gen(count, op) ==
    LET low == count % 268435456
    IN  (IF low >= 134217728 THEN low - 268435456 ELSE low) * 16 + op

\* sprintf("%d") of a number that is not negative.
RECURSIVE Decimal(_)
Decimal(n) == IF n < 10 THEN <<48 + n>> ELSE Decimal(n \div 10) \o <<48 + (n % 10)>>

\* The characters the loop of BamCigar__str__ prints for words i .. (1-based).
RECURSIVE StrFrom(_, _, _)
StrFrom(words, i, junk) ==
    IF i > Len(words) THEN <<>>
    ELSE Decimal(bam_cigar_oplen(words[i])) \o <<bam_cigar_opchr(words[i], junk)>>
           \o StrFrom(words, i + 1, junk)

\* str(cigar).  The buffer holds 10 bytes per word, and every sprintf writes a
\* NUL behind its characters: oob tells whether the last NUL lands behind the
\* buffer.
BamCigar__str__(words, junk) ==
    LET s == StrFrom(words, 1, junk)
    IN  [err |-> "", val |-> PyStr(s),
         oob |-> (Len(words) > 0 /\ Len(s) + 1 > 10 * Len(words))]

IsDigit(c) == c >= 48 /\ c <= 57

\* The offset behind the white space (isspace) from offset o on.
RECURSIVE SkipSpace(_, _)
SkipSpace(cs, o) ==
    IF CharAt(cs, o + 1) \in {9, 10, 11, 12, 13, 32} THEN SkipSpace(cs, o + 1) ELSE o

\* The digits from offset o on: the number they spell and the offset behind
\* them.  A number above BAM_CIGAR_MAX_COUNT is held as BAM_CIGAR_MAX_COUNT + 1:
\* the caller only asks whether it is above the maximum.
RECURSIVE Digits(_, _, _)
Digits(cs, o, acc) ==
    IF ~IsDigit(CharAt(cs, o + 1)) THEN [count |-> acc, endptr |-> o]
    ELSE LET d == CharAt(cs, o + 1) - 48
             next == IF acc > BAM_CIGAR_MAX_COUNT \div 10 THEN BAM_CIGAR_MAX_COUNT + 1
                     ELSE IF acc * 10 + d > BAM_CIGAR_MAX_COUNT THEN BAM_CIGAR_MAX_COUNT + 1
                     ELSE acc * 10 + d
         IN  Digits(cs, o + 1, next)

\* A strtol that stops behind the first digit.
StrtolOneDigit(cs, cursor) ==
    IF IsDigit(CharAt(cs, cursor + 1))
    THEN [count |-> CharAt(cs, cursor + 1) - 48, endptr |-> cursor + 1]
    ELSE [count |-> 0, endptr |-> cursor]

\* strtol(cursor, &endptr, 10) on the NUL-terminated characters: white space,
\* an optional sign, digits.  Without a digit it gives 0 and endptr = cursor.
strtol(cs, cursor) ==
    LET o == SkipSpace(cs, cursor)
        signed == CharAt(cs, o + 1) \in {43, 45}
        first == IF signed THEN o + 1 ELSE o
        d == Digits(cs, first, 0)
    IN  IF ~IsDigit(CharAt(cs, first + 1)) THEN [count |-> 0, endptr |-> cursor]
        ELSE IF CharAt(cs, o + 1) = 45 THEN [count |-> 0 - d.count, endptr |-> d.endptr]
        ELSE d

\* The loop of BamCigar__new___ from offset cursor on, with the words stored so far.
RECURSIVE ParseCigar(_, _, _)
ParseCigar(cs, cursor, words) ==
    IF cursor >= Len(cs) THEN [err |-> "", words |-> words]
    ELSE LET t == strtol(cs, cursor)
             fail == [err |-> "ValueError", words |-> words]
         IN  IF t.count < 0 THEN fail
             ELSE IF t.count > BAM_CIGAR_MAX_COUNT THEN fail
             ELSE IF t.endptr >= Len(cs) THEN fail
             ELSE IF bam_cigar_table(cs[t.endptr + 1]) = -1 THEN fail
             ELSE ParseCigar(cs, t.endptr + 1,
                             Append(words, bam_cigar_gen(t.count,
                                                         bam_cigar_table(cs[t.endptr + 1]))))

\* Cigar(cigarstring).  The object is allocated for string_size / 2 words; a
\* word stored behind them is written outside the object (oob), and after the
\* resize it reads as it was written or, when the block moved (lost), as junk
\* (0xAAAAAAAA here).
BamCigar__new___(cigarstring, lost) ==
    IF cigarstring.kind # "str" THEN [err |-> "TypeError", val |-> NoValue, oob |-> FALSE]
    ELSE IF ~IsAscii(cigarstring.chars)
         THEN [err |-> "ValueError", val |-> NoValue, oob |-> FALSE]
    ELSE LET maximum_cigar_op == Len(cigarstring.chars) \div 2
             p == ParseCigar(cigarstring.chars, 0, <<>>)
             oob == Len(p.words) > maximum_cigar_op
         IN  IF p.err # "" THEN [err |-> p.err, val |-> NoValue, oob |-> oob]
             ELSE [err |-> "",
                   val |-> PyCigar([i \in 1..Len(p.words) |->
                                      IF i > maximum_cigar_op /\ lost THEN -1431655766
                                      ELSE p.words[i]]),
                   oob |-> oob]

\* Cigar.from_buffer(data).  The function has no PyBuffer_Release: the view it
\* got is held at both returns that follow PyObject_GetBuffer.
BamCigar_from_buffer(data_obj) ==
    LET buffer == BufferOf(data_obj)
    IN  IF ~buffer.ok THEN [err |-> "TypeError", val |-> NoValue, held |-> 0]
        ELSE IF Len(buffer.bytes) % 4 # 0
             THEN [err |-> "ValueError", val |-> NoValue, held |-> 1]
        ELSE [err |-> "", val |-> PyCigar(BytesToWords(buffer.bytes)), held |-> 1]

\* PyLong_AsSsize_t(v) > limit || PyLong_AsSsize_t(v) < 0, for 0 <= limit < 2^31.
OutOfRange(v, limit) == v.hi # 0 \/ v.n > limit \/ v.n < 0

\* The loop of BamCigar_from_iter from item i on.  pending is the exception
\* that has been set without leaving the function: the range check of the
\* count sets one and goes on.
RECURSIVE FromIterLoop(_, _, _, _)
FromIterLoop(items, i, words, pending) ==
    IF i > Len(items) THEN [err |-> pending, val |-> PyCigar(words)]
    ELSE LET tup == items[i] IN
         IF tup.kind # "tuple" THEN [err |-> "TypeError", val |-> NoValue]
         ELSE IF Len(tup.chars) # 2 THEN [err |-> "ValueError", val |-> NoValue]
         ELSE LET operation == tup.chars[1]
                  count == tup.chars[2]
              IN  IF operation.kind # "int" THEN [err |-> "TypeError", val |-> NoValue]
                  ELSE IF count.kind # "int" THEN [err |-> "TypeError", val |-> NoValue]
                  ELSE IF OutOfRange(operation, BAM_CIGAR_MAX_OP)
                       THEN [err |-> "ValueError", val |-> NoValue]
                  ELSE FromIterLoop(
                           items, i + 1,
                           Append(words, bam_cigar_gen(count.n, operation.n)),
                           IF OutOfRange(count, BAM_CIGAR_MAX_COUNT)
                           THEN "ValueError" ELSE pending)

\* Cigar.from_iter(cigartuples): what the function returns (val) and the
\* exception it leaves set (err).
BamCigar_from_iter(cigartuples_in) ==
    IF cigartuples_in.kind \notin {"list", "tuple"} THEN [err |-> "TypeError", val |-> NoValue]
    ELSE FromIterLoop(cigartuples_in.chars, 1, <<>>, "")


(* The calls on one Cigar. *)

MaxCigarChars == 3
MaxCigarOps == 2

\* Strings over '0' '3' 'M' 'S' '-' '+' ' ' 'Q', "268435455M", "268435456M",
\* "9999999999M", "10=2X5B", a string that is not ASCII, and two values that
\* are no strings.
CigarStringInputs ==
    { PyStr(s) : s \in UNION { [1..k -> {48, 51, 77, 83, 45, 43, 32, 81}] :
                                 k \in 0..MaxCigarChars } }
      \cup { PyStr(<<50, 54, 56, 52, 51, 53, 52, 53, 53, 77>>),
             PyStr(<<50, 54, 56, 52, 51, 53, 52, 53, 54, 77>>),
             PyStr(<<57, 57, 57, 57, 57, 57, 57, 57, 57, 57, 77>>),
             PyStr(<<49, 48, 61, 50, 88, 53, 66>>),
             PyStr(<<51, 77, 233>>),
             PyBytes(<<51, 77>>), PyNone }

\* Lists of (operation, count) tuples and of items that are no such tuples; a
\* tuple of tuples; a value that is no sequence.
CigarIterInputs ==
    LET PyTuple(items) == PyValue("tuple", items, 0, 0)
        PyList(items) == PyValue("list", items, 0, 0)
        pairs == { PyTuple(<<PyInt(op), n>>) :
                     op \in {0, 9, 10, -1},
                     n \in {PyInt(0), PyInt(3), PyInt(BAM_CIGAR_MAX_COUNT),
                            PyInt(BAM_CIGAR_MAX_COUNT + 1), PyInt(-1), PyBigInt(1, 3)} }
                   \cup { PyTuple(<<PyInt(0)>>), PyTuple(<<PyStr(<<77>>), PyInt(3)>>),
                          PyTuple(<<PyInt(0), PyFloat(0)>>),
                          PyList(<<PyInt(0), PyInt(3)>>) }
    IN  { PyList(s) : s \in UNION { [1..k -> pairs] : k \in 0..MaxCigarOps } }
          \cup { PyTuple(<<PyTuple(<<PyInt(4), PyInt(3)>>)>>), PyInt(3) }

\* Buffers of the words 0M, 3N, 19S, a word of operation 10, 268435455B and
\* 0xFFFFFFFF (operation 15); a buffer of 3 bytes; a buffer of unsigned
\* integers; a Cigar; a string.
CigarBufferInputs ==
    { PyBytes(WordsToBytes(w)) :
        w \in UNION { [1..k -> {0, 51, 308, 58, -7, -1}] : k \in 0..MaxCigarOps } }
      \cup { PyBytes(<<1, 2, 3>>), PyBuffer(<<51, 0, 0, 0>>, 73),
             PyCigar(<<51>>), PyStr(<<51, 77>>) }

\* A constructor: the Cigar it returns is the one under test.  The
\* constructors read no state, so a behaviour constructs one Cigar.
CigarCall(op, r, input, oob) ==
    /\ cigar' = r.val
    /\ res' = [Outcome(op, r.err, r.val, [NoArg EXCEPT !.value = input])
                 EXCEPT !.oob = oob]
    /\ UNCHANGED <<rec, prev, nops, recs, data, it, yielded, bbuf, vfo>>

CigarFromString ==
    /\ res.op = "init"
    /\ \E s \in CigarStringInputs, lost \in BOOLEAN :
           LET r == BamCigar__new___(s, lost)
           IN  CigarCall("from_string", r, s, r.oob)

\* When the function returns a Cigar with an exception set, the interpreter
\* either checks the result (checked) and raises SystemError in its place, or
\* hands the Cigar to the caller with the exception pending.
CigarFromIter ==
    /\ res.op = "init"
    /\ \E p \in CigarIterInputs, checked \in BOOLEAN :
           LET f == BamCigar_from_iter(p)
               r == IF f.err # "" /\ f.val # NoValue /\ checked
                    THEN [err |-> "SystemError", val |-> NoValue]
                    ELSE f
           IN  CigarCall("from_iter", r, p, FALSE)

CigarFromBuffer ==
    /\ res.op = "init"
    /\ \E b \in CigarBufferInputs :
           LET r == BamCigar_from_buffer(b)
           IN  /\ cigar' = r.val
               /\ res' = [Outcome("from_buffer", r.err, r.val, [NoArg EXCEPT !.value = b])
                            EXCEPT !.held = r.held]
               /\ UNCHANGED <<rec, prev, nops, recs, data, it, yielded, bbuf, vfo>>

\* str(cigar); junk is the character printed for an operation above 9 ('?' or
\* a letter).
CigarToString ==
    \E junk \in {63, 77} :
        LET r == BamCigar__str__(cigar.chars, junk)
        IN  /\ cigar.kind = "cigar"
            /\ res' = [Outcome("to_string", r.err, r.val, [NoArg EXCEPT !.value = cigar])
                         EXCEPT !.oob = r.oob]
            /\ UNCHANGED <<cigar, rec, prev, nops, recs, data, it, yielded, bbuf, vfo>>

\* Cigar(str(cigar)): the string just printed is parsed; the Cigar under test stays.
CigarReparse ==
    \E lost \in BOOLEAN :
        LET r == BamCigar__new___(res.val, lost)
        IN  /\ res.op = "to_string" /\ res.ok
            /\ res' = [Outcome("reparse", r.err, r.val, [NoArg EXCEPT !.value = res.val])
                         EXCEPT !.oob = r.oob]
            /\ UNCHANGED <<cigar, rec, prev, nops, recs, data, it, yielded, bbuf, vfo>>

NextCigar ==
    \/ CigarFromString
    \/ CigarFromIter
    \/ CigarFromBuffer
    \/ CigarToString
    \/ CigarReparse

SpecCigar == Init /\ [][NextCigar]_vars


\* C12, as stated: for every Cigar that can be constructed, from a string, from
\* pairs or from a buffer, parsing the string it prints succeeds and gives a
\* Cigar equal to it.
StringRoundTripsForEveryCigar ==
    res.op = "reparse" => (res.ok /\ res.val = cigar)

\* C12, amended: for every Cigar whose words all hold an operation in 0..9,
\* parsing the string it prints succeeds and gives a Cigar equal to it.
StringRoundTripsForValidOps ==
    (/\ res.op = "reparse"
     /\ \A i \in 1..Len(cigar.chars) : bam_cigar_op(cigar.chars[i]) <= BAM_CIGAR_MAX_OP)
        => (res.ok /\ res.val = cigar)

\* A Cigar of two words, the first with the longest length, was printed and parsed.
LongCigarReparsed ==
    /\ res.op = "reparse"
    /\ \A i \in 1..Len(cigar.chars) : bam_cigar_op(cigar.chars[i]) <= BAM_CIGAR_MAX_OP
    /\ Len(cigar.chars) = 2
    /\ bam_cigar_oplen(cigar.chars[1]) = BAM_CIGAR_MAX_COUNT


\* C13: Cigar(s) succeeds exactly when the string s is a repetition of one or
\* more decimal digits followed by one letter of MIDNSHP=XB, with every number
\* in 0..2^28-1; for every other string it fails with ValueError and returns
\* no Cigar.
FromStringAcceptsExactlyCigarText ==
    (res.op = "from_string" /\ res.arg.value.kind = "str") =>
        LET cs == res.arg.value.chars
            text ==
                /\ \A i \in 1..Len(cs) : IsDigit(cs[i]) \/ bam_cigar_table(cs[i]) # -1
                /\ \A i \in 1..Len(cs) : ~IsDigit(cs[i]) => (i > 1 /\ IsDigit(cs[i - 1]))
                /\ Len(cs) > 0 => ~IsDigit(cs[Len(cs)])
                /\ \A i \in 1..Len(cs) :
                       (IsDigit(cs[i]) /\ (i = 1 \/ ~IsDigit(cs[i - 1])))
                           => Digits(cs, i - 1, 0).count <= BAM_CIGAR_MAX_COUNT
        IN  /\ res.ok <=> text
            /\ ~res.ok => (res.err = "ValueError" /\ res.val = NoValue)


\* C14: Cigar.from_iter(pairs) fails and returns no Cigar whenever a pair has an
\* operation outside 0..9 or a length outside 0..2^28-1; when it succeeds, word
\* i is (len_i << 4) | op_i, in the order of the pairs.
FromPairsChecksEveryPair ==
    (/\ res.op = "from_iter"
     /\ res.arg.value.kind = "list"
     /\ \A i \in 1..Len(res.arg.value.chars) :
            /\ res.arg.value.chars[i].kind = "tuple"
            /\ Len(res.arg.value.chars[i].chars) = 2
            /\ res.arg.value.chars[i].chars[1].kind = "int"
            /\ res.arg.value.chars[i].chars[2].kind = "int")
        => LET pairs == res.arg.value.chars
               inrange(v, limit) == v.hi = 0 /\ v.n >= 0 /\ v.n <= limit
               valid == \A i \in 1..Len(pairs) :
                            /\ inrange(pairs[i].chars[1], 9)
                            /\ inrange(pairs[i].chars[2], 268435455)
           IN  /\ ~valid => (~res.ok /\ res.val = NoValue)
               /\ res.ok =>
                      /\ res.val.kind = "cigar"
                      /\ Len(res.val.chars) = Len(pairs)
                      /\ \A i \in 1..Len(pairs) :
                             /\ bam_cigar_op(res.val.chars[i]) = pairs[i].chars[1].n
                             /\ bam_cigar_oplen(res.val.chars[i]) = pairs[i].chars[2].n


----------------------------------------------------------------------------
(* set_sequence(s) and get_sequence() on strings of IUPAC letters. *)

\* Strings over '=' 'A' 'N', every single letter, and the sixteen letters in a
\* row with and without the last.
IupacInputs ==
    { PyStr(s) : s \in UNION { [1..k -> {61, 65, 78}] : k \in 0..MaxSeqLen } }
      \cup { PyStr(<<IupacChars[k]>>) : k \in 1..16 }
      \cup { PyStr(IupacChars), PyStr(SubSeq(IupacChars, 1, 15)) }

\* set_sequence(s), with no qualities
SetIupacSequence ==
    \E s \in IupacInputs :
        /\ nops < MaxOps
        /\ Call("set_sequence", BamRecord_set_sequence(rec, <<s>>), [NoArg EXCEPT !.value = s])

\* get_sequence() after a set_sequence; the outcome keeps what was set.
GetSequence ==
    /\ res.op = "set_sequence"
    /\ Read(Outcome("get_sequence", "", PyStr(BamRecord_get_sequence(rec)), res.arg))

NextSequence ==
    \/ SetSequence
    \/ SetIupacSequence
    \/ GetSequence

SpecSequence == Init /\ [][NextSequence]_vars

TruncatedStepFails ==
    [][ LET left == it.len - it.pos
            block_size == DecodeLE32(Slice(it.buf, it.pos, 4))
        IN  (/\ it.open
             /\ res'.op = "next"
             /\ \/ 0 < left /\ left < 36
                \/ left >= 36 /\ (block_size < 0 \/ block_size > left - 4))
                => (/\ res'.err = "EOFError"
                    /\ yielded' = yielded
                    /\ it'.pos = it.pos) ]_vars


\* C17: a step of the iterator on a record whose read name holds a byte above
\* 127 fails and yields no record: every step that succeeds, and every record
\* yielded, has a read name of ASCII bytes only.
NonAsciiNameNotYielded ==
    /\ (res.op = "next" /\ res.ok) => IsAscii(rec.read_name)
    /\ \A i \in 1..Len(yielded) : IsAscii(yielded[i].read_name)


----------------------------------------------------------------------------
(* The BamBlockBuffer object. *)

\* BamBlockBuffer(buffersize): the buffer is allocated, not filled (junk).
BamBlockBuffer__init__(self, buffersize, junk) ==
    IF buffersize < 0 THEN [buf |-> self, err |-> "ValueError"]
    ELSE [buf |-> [buffersize |-> buffersize, pos |-> 0,
                   buffer |-> [i \in 1..buffersize |-> junk]],
          err |-> ""]

\* A write that does not ask whether the record fits.
WriteWithoutRoomCheck(self, bam_record) ==
    IF "block_size" \notin DOMAIN bam_record
    THEN [buf |-> self, err |-> "TypeError", val |-> NoValue, written |-> 0, oob |-> FALSE]
    ELSE LET stream == BamRecord_to_ptr(bam_record)
         IN  [buf |-> [self EXCEPT
                         !.pos = self.pos + bam_record.block_size + 4,
                         !.buffer = [i \in 1..self.buffersize |->
                                       IF i > self.pos /\ i <= self.pos + Len(stream)
                                       THEN stream[i - self.pos]
                                       ELSE self.buffer[i]]],
              err |-> "",
              val |-> PyInt(bam_record.block_size + 4),
              written |-> Len(stream),
              oob |-> self.pos + Len(stream) > self.buffersize]

\* write(bam_record): the buffer afterwards, the value returned, the number of
\* bytes BamRecord_to_ptr wrote from buffer + pos on, and whether it wrote
\* behind the end of the buffer.  record_size is block_size + 4 on 64 bits.
BamBlockBuffer_write(self, bam_record) ==
    IF "block_size" \notin DOMAIN bam_record
    THEN [buf |-> self, err |-> "TypeError", val |-> NoValue, written |-> 0, oob |-> FALSE]
    ELSE IF \/ bam_record.block_size < 0
            \/ bam_record.block_size > self.buffersize - self.pos - 4
    THEN [buf |-> self, err |-> "", val |-> PyInt(0), written |-> 0, oob |-> FALSE]
    ELSE LET record_size == bam_record.block_size + 4
             final_pos == self.pos + record_size
             stream == BamRecord_to_ptr(bam_record)
         IN  [buf |-> [self EXCEPT
                         !.pos = final_pos,
                         !.buffer = [i \in 1..self.buffersize |->
                                       IF i > self.pos /\ i <= self.pos + Len(stream)
                                       THEN stream[i - self.pos]
                                       ELSE self.buffer[i]]],
              err |-> "",
              val |-> PyInt(record_size),
              written |-> Len(stream),
              oob |-> self.pos + Len(stream) > self.buffersize]

\* A call on the block buffer with the given outcome.
BufferCall(buf, outcome) ==
    /\ bbuf' = buf
    /\ res' = outcome
    /\ prev' = rec
    /\ UNCHANGED <<rec, nops, recs, data, it, yielded, cigar, vfo>>

BlockBufferInit ==
    \E buffersize \in {-1, 40, 90}, junk \in JunkBytes :
        LET r == BamBlockBuffer__init__(bbuf, buffersize, junk)
        IN  /\ bbuf.buffersize = 0
            /\ BufferCall(r.buf, Outcome("BamBlockBuffer", r.err, NoValue, NoArg))

\* write(rec) and write(None)
BlockBufferWrite ==
    \E bam_record \in {rec, PyNone} :
        LET r == BamBlockBuffer_write(bbuf, bam_record)
        IN  /\ TRUE
            /\ BufferCall(r.buf, [Outcome("write", r.err, r.val, NoArg)
                                    EXCEPT !.written = r.written, !.oob = r.oob])

\* reset()
BlockBufferReset ==
    /\ TRUE
    /\ BufferCall([bbuf EXCEPT !.pos = 0], Outcome("reset", "", NoValue, NoArg))

\* get_block_view(): a memoryview of the first pos bytes.
BlockBufferView ==
    /\ TRUE
    /\ BufferCall(bbuf, Outcome("get_block_view", "",
                                PyBuffer(Slice(bbuf.buffer, 0, bbuf.pos), 66), NoArg))

NextBlockBuffer ==
    \/ SetCigar
    \/ SetSequence
    \/ BlockBufferInit
    \/ BlockBufferWrite
    \/ BlockBufferReset
    \/ BlockBufferView

SpecBlockBuffer == Init /\ [][NextBlockBuffer]_vars

\* C18: after any sequence of write and reset calls the cursor is between 0 and
\* the capacity; a write adds the value it returns to the cursor and a reset
\* sets it to 0, so the cursor is the sum of the values returned by write since
\* the last reset; the view holds cursor bytes; and a write that returns 0
\* leaves the cursor and the content as they were.
CursorCountsTheWrites ==
    [][ /\ 0 <= bbuf'.pos /\ bbuf'.pos <= bbuf'.buffersize
        /\ (res'.op = "write" /\ res'.ok) => bbuf'.pos = bbuf.pos + res'.val.n
        /\ (res'.op = "write" /\ ~res'.ok) => bbuf' = bbuf
        /\ res'.op = "reset" => bbuf'.pos = 0
        /\ res'.op = "get_block_view" =>
               (Len(res'.val.chars) = bbuf.pos /\ bbuf' = bbuf)
        /\ (res'.op = "write" /\ res'.val = PyInt(0)) => bbuf' = bbuf ]_vars

\* A write was refused, with the value 0, by a buffer that holds a record.
FullBufferRefusedWrite ==
    /\ res.op = "write"
    /\ res.val = PyInt(0)
    /\ bbuf.pos > 0
    /\ bbuf.pos + 37 > bbuf.buffersize


\* C19: a write that succeeds stores exactly the 4 + block_size bytes it
\* returns, from the cursor on, and writes no byte behind them or behind the
\* end of the buffer; this for every record the calls can make, one whose cigar
\* was replaced by the cigar setter included.
WriteStoresBlockSizeBytes ==
    (res.op = "write" /\ res.ok /\ res.val # PyInt(0))
        => (res.written = res.val.n /\ ~res.oob)


----------------------------------------------------------------------------
(* The VirtualFileOffset object: a uint64_t, held as four 16-bit limbs, the
   lowest first. *)

UOFFSET_MAX == 65535

\* PyLong_AsUnsignedLongLong(v): the limbs of v; for a negative v it sets an
\* exception and returns (unsigned long long)-1.
PyLong_AsUnsignedLongLong(v) ==
    LET high == IF v.n < 0 THEN v.hi - 1 ELSE v.hi
    IN  IF high < 0 THEN <<65535, 65535, 65535, 65535>>
        ELSE <<v.n % 65536, (v.n \div 65536) % 65536, high % 65536, high \div 65536>>

\* PyLong_FromUnsignedLongLong(w), for a w below 2^63
PyLong_FromUnsignedLongLong(w) ==
    IF w[2] >= 32768
    THEN PyBigInt(w[3] + 65536 * w[4] + 1, w[1] + 65536 * (w[2] - 65536))
    ELSE PyBigInt(w[3] + 65536 * w[4], w[1] + 65536 * w[2])

\* a & b on 16 bits
RECURSIVE BitAnd16(_, _)
BitAnd16(a, b) ==
    IF a = 0 \/ b = 0 THEN 0
    ELSE (a % 2) * (b % 2) + 2 * BitAnd16(a \div 2, b \div 2)

\* VirtualFileOffset(coffset, uoffset); uoffset_o is PyNone when it is left out.
\* The call of PyArg_ParseTupleAndKeywords gives each object pointer where the
\* format O! asks for the type, and &PyLong_Type where it asks for the address:
\* the behaviour is undefined.  The outcomes modelled are a crash in the
\* parser and (parsed) the arguments stored as the format string means them.
VirtualFileOffset__init__(coffset_o, uoffset_o, parsed) ==
    IF ~parsed THEN [err |-> "SIGSEGV", vfo |-> PyNone]
    ELSE IF coffset_o.kind # "int" \/ uoffset_o.kind \notin {"int", "none"}
    THEN [err |-> "TypeError", vfo |-> PyNone]
    ELSE LET coffset == PyLong_AsUnsignedLongLong(coffset_o)
             uoffset == IF uoffset_o.kind = "none" THEN <<0, 0, 0, 0>>
                        ELSE PyLong_AsUnsignedLongLong(uoffset_o)
             shifted == <<0, coffset[1], coffset[2], coffset[3]>>
         IN  IF coffset[4] # 0 THEN [err |-> "OverflowError", vfo |-> PyNone]
             ELSE IF uoffset[2] # 0 \/ uoffset[3] # 0 \/ uoffset[4] # 0
                  THEN [err |-> "OverflowError", vfo |-> PyNone]
             ELSE [err |-> "",
                   vfo |-> [voffset |-> [i \in 1..4 |-> BitAnd16(shifted[i], uoffset[i])]]]

\* self->voffset >> 16
VirtualFileOffset_coffset_get(self) ==
    PyLong_FromUnsignedLongLong(<<self.voffset[2], self.voffset[3], self.voffset[4], 0>>)

\* self->voffset & UOFFSET_MAX
VirtualFileOffset_uoffset_get(self) ==
    PyLong_FromUnsignedLongLong(<<BitAnd16(self.voffset[1], UOFFSET_MAX), 0, 0, 0>>)

\* coffset: 0, 1, 2^16 - 1, 2^16, 2^31 - 1, 2^32 - 1, 2^32, 2^48 - 1, 2^48, -1
\* and a str; uoffset: left out, 0, 1, 2^15, 2^16 - 1, 2^16, -1.
OffsetInit ==
    /\ res.op = "init"
    /\ \E coffset \in {PyInt(0), PyInt(1), PyInt(65535), PyInt(65536), PyInt(2147483647),
                       PyBigInt(1, -1), PyBigInt(1, 0), PyBigInt(65536, -1),
                       PyBigInt(65536, 0), PyInt(-1), PyStr(<<49>>)},
          uoffset \in {PyNone, PyInt(0), PyInt(1), PyInt(32768), PyInt(UOFFSET_MAX),
                       PyInt(UOFFSET_MAX + 1), PyInt(-1)},
          parsed \in BOOLEAN :
           LET r == VirtualFileOffset__init__(coffset, uoffset, parsed)
           IN  /\ vfo' = r.vfo
               /\ res' = Outcome("VirtualFileOffset", r.err, NoValue,
                                 [coffset |-> coffset, uoffset |-> uoffset])
               /\ UNCHANGED <<rec, prev, nops, recs, data, it, yielded, cigar, bbuf>>

\* The coffset and uoffset properties; the outcome keeps the arguments of the
\* constructor.
OffsetGet ==
    /\ vfo # PyNone
    /\ \E name \in {"coffset", "uoffset"} :
           /\ res' = Outcome(name, "",
                             IF name = "coffset" THEN VirtualFileOffset_coffset_get(vfo)
                             ELSE VirtualFileOffset_uoffset_get(vfo),
                             res.arg)
           /\ UNCHANGED <<vfo, rec, prev, nops, recs, data, it, yielded, cigar, bbuf>>

\* VirtualFileOffset.from_bytes(b).  For a bytes object of another length than
\* 8 the ValueError is set and the function goes on: it makes the object and
\* reads 8 bytes at the start of b, of which those behind the bytes of b are the
\* NUL that ends every bytes object and then whatever follows it in memory
\* (junk; oob).  read is the bytes read, <<>> when b is not looked into.
VirtualFileOffset_from_bytes(b, junk) ==
    IF b.kind # "bytes"
    THEN [err |-> "TypeError", vfo |-> PyNone, read |-> <<>>, oob |-> FALSE]
    ELSE LET size == Len(b.chars)
             read == [i \in 1..8 |-> IF i <= size THEN b.chars[i]
                                     ELSE IF i = size + 1 THEN 0
                                     ELSE junk]
         IN  [err |-> IF size = 8 THEN "" ELSE "ValueError",
              vfo |-> [voffset |-> [i \in 1..4 |-> read[2 * i - 1] + 256 * read[2 * i]]],
              read |-> read,
              oob |-> size + 1 < 8]

\* from_bytes of bytes objects of 0, 3, 7, 8, 9 and 16 bytes and of a str.  A
\* function that returns an object with an exception set: the interpreter
\* either checks the result (checked) and raises SystemError in its place, or
\* hands the object to the caller.
OffsetFromBytes ==
    /\ res.op = "init"
    /\ \E b \in {PyBytes(<<>>), PyBytes(<<1, 2, 3>>), PyBytes(<<1, 2, 3, 4, 5, 6, 7>>),
                 PyBytes(<<0, 0, 0, 0, 0, 0, 0, 0>>), PyBytes(<<5, 0, 1, 0, 0, 0, 0, 0>>),
                 PyBytes(<<255, 255, 255, 255, 255, 255, 255, 255>>),
                 PyBytes(<<1, 2, 3, 4, 5, 6, 7, 8>>),
                 PyBytes(<<1, 2, 3, 4, 5, 6, 7, 8, 9>>),
                 PyBytes(<<1, 0, 0, 0, 0, 0, 0, 0, 2, 0, 0, 0, 0, 0, 0, 0>>),
                 PyStr(<<49, 50, 51, 52, 53, 54, 55, 56>>)},
          junk \in JunkBytes, checked \in BOOLEAN :
           LET f == VirtualFileOffset_from_bytes(b, junk)
               dropped == f.err # "" /\ f.vfo # PyNone /\ checked
           IN  /\ vfo' = IF dropped THEN PyNone ELSE f.vfo
               /\ res' = [Outcome("from_bytes",
                                  IF dropped THEN "SystemError" ELSE f.err, NoValue,
                                  [coffset |-> PyNone, uoffset |-> PyNone, b |-> b])
                            EXCEPT !.bytes = f.read, !.oob = f.oob]
               /\ UNCHANGED <<rec, prev, nops, recs, data, it, yielded, cigar, bbuf>>

\* a == b and a < b for two objects of VirtualFileOffset_Type; same says that
\* a and b are one object.  The type fills tp_dealloc, tp_flags, tp_methods,
\* tp_getset, tp_init and tp_new and no tp_richcompare, so PyType_Ready gives it
\* the comparison of object: == is identity, and an ordering is NotImplemented
\* on both sides, which is a TypeError.
VirtualFileOffset_Type(same, op) ==
    IF op = "==" THEN [err |-> "", val |-> PyValue("bool", <<>>, IF same THEN 1 ELSE 0, 0)]
    ELSE [err |-> "TypeError", val |-> NoValue]

\* The offset compared with itself, with a second object of the same value and
\* with one of another value (VirtualFileOffset_FromUint64 makes them).
OffsetCompare ==
    /\ vfo # PyNone
    /\ \E other \in {"self", "equal", "differs"}, op \in {"==", "<"} :
           LET r == VirtualFileOffset_Type(other = "self", op)
           IN  /\ res' = Outcome("compare", r.err, r.val,
                                 [coffset |-> res.arg.coffset,
                                  uoffset |-> res.arg.uoffset,
                                  other |-> IF other = "differs"
                                            THEN [vfo.voffset EXCEPT ![1] = (@ + 1) % 65536]
                                            ELSE vfo.voffset,
                                  op |-> op])
               /\ UNCHANGED <<vfo, rec, prev, nops, recs, data, it, yielded, cigar, bbuf>>

NextOffset ==
    \/ OffsetInit
    \/ OffsetFromBytes
    \/ OffsetGet
    \/ OffsetCompare

SpecOffset == Init /\ [][NextOffset]_vars

\* C20: for every coffset in 0..2^48-1 and uoffset in 0..2^16-1,
\* VirtualFileOffset(coffset, uoffset) succeeds and holds (coffset << 16) |
\* uoffset, and the coffset and uoffset properties return the two arguments.
OffsetHoldsItsArguments ==
    (/\ res.op \in {"VirtualFileOffset", "coffset", "uoffset"}
     /\ res.arg.coffset.kind = "int"
     /\ res.arg.uoffset.kind = "int"
     /\ PyLong_AsUnsignedLongLong(res.arg.coffset)[4] = 0
     /\ res.arg.coffset # PyInt(-1)
     /\ res.arg.uoffset.n \in 0..65535)
        => LET c == PyLong_AsUnsignedLongLong(res.arg.coffset)
               u == res.arg.uoffset.n
           IN  /\ res.ok
               /\ vfo # PyNone
               /\ vfo.voffset = <<u, c[1], c[2], c[3]>>
               /\ res.op = "coffset" => PyLong_AsUnsignedLongLong(res.val) = c
               /\ res.op = "uoffset" => res.val = PyInt(u)


\* C27: while Cigar(s) parses a string of length L it never stores more words
\* than the L / 2 it allocated, for every string, those made of operation
\* letters only included.
FromStringStaysInAllocation ==
    res.op \in {"from_string", "reparse"} => ~res.oob


\* C29: for every Cigar of n operations, str(cigar) writes at most 10 * n bytes
\* into its buffer of 10 * n bytes, the NUL each sprintf appends counted, also
\* when every operation has a length of 9 digits.
ToStringStaysInBuffer ==
    res.op = "to_string" => ~res.oob


\* C25: a step of the iterator reads no byte behind the end of the buffer, and
\* when the counters l_read_name, n_cigar_op and l_seq of the header ask for
\* more bytes than the block_size - 32 of the record, or l_read_name is 0, the
\* step fails and yields no record instead of copying bytes from behind the
\* record.
StepReadsInsideTheRecord ==
    [][ LET left == it.len - it.pos
            h == Slice(it.buf, it.pos, 36)
            block_size == DecodeLE32(Slice(h, 0, 4))
            l_read_name == h[13]
            n_cigar_op == DecodeLE16(Slice(h, 16, 2))
            l_seq == DecodeLE32(Slice(h, 20, 4))
        IN  (it.open /\ res'.op = "next") =>
                /\ ~res'.oob
                /\ (/\ left >= 36
                    /\ block_size >= 0
                    /\ block_size <= left - 4
                    /\ \/ l_read_name = 0
                       \/ l_seq < 0
                       \/ l_read_name + 4 * n_cigar_op + Ceil2(l_seq) + l_seq
                              > block_size - 32)
                       => (res'.err # "" /\ yielded' = yielded) ]_vars


\* C26: a step of the iterator either yields a record and moves the position
\* forward by exactly block_size + 4, or yields nothing (end of the buffer or
\* any failure, counters larger than block_size included) and leaves the
\* position where it was; the position never goes back and never passes the
\* length of the buffer, and after a StopIteration every later step raises
\* StopIteration again.
StepAdvancesByRecordOrStays ==
    [][ (it.open /\ res'.op = "next") =>
            /\ res'.err = "" =>
                   /\ it'.pos = it.pos + DecodeLE32(Slice(it.buf, it.pos, 4)) + 4
                   /\ Len(yielded') = Len(yielded) + 1
            /\ res'.err # "" => (it'.pos = it.pos /\ yielded' = yielded)
            /\ it'.pos >= it.pos
            /\ it'.pos <= it'.len
            /\ (res.op = "next" /\ res.err = "StopIteration")
                   => res'.err = "StopIteration" ]_vars


\* C24: on a well-formed tag blob that holds exactly one entry of the name,
\* wherever it stands and whatever its type, set_tag of a supported type and
\* value succeeds, and the new blob is the bytes before the old entry, the bytes
\* after it, and one complete new entry of that name at the end.
SetReplacesTheOneEntry ==
    LET old == prev.tags
        name == res.arg.tag.chars
        starts == { p \in 0 .. Len(old) - 1 :
                      /\ WellFormedTags(Slice(old, 0, p))
                      /\ Slice(old, p, 2) = name }
    IN  (/\ res.op = "set_tag"
         /\ res.arg \in SupportedSetTagInputs
         /\ WellFormedTags(old)
         /\ Cardinality(starts) = 1) =>
            /\ res.ok
            /\ \A p \in starts :
                   LET kept == Slice(old, 0, p)
                                 \o Slice(old, EntryEnd(old, p), Len(old) - EntryEnd(old, p))
                   IN  /\ Len(rec.tags) > Len(kept)
                       /\ Slice(rec.tags, 0, Len(kept)) = kept
                       /\ Slice(rec.tags, Len(kept), 2) = name
                       /\ EntryEnd(rec.tags, Len(kept)) = Len(rec.tags)
                       /\ name \notin EntryNames(kept)


\* C28: for a B entry at the start of the blob with element size s and count c,
\* get_tag takes the payload to be the exact product c * s bytes: when c * s is
\* more than the bytes that follow the count, get_tag of any name reports
\* TruncatedTag, and a view returned for the entry holds exactly c elements.
ArrayLengthIsExactProduct ==
    LET tags == rec.tags
        s == PayloadSize(tags[4])
        c == DecodeLE32(Slice(tags, 4, 4))
    IN  (/\ res.op = "get_tag"
         /\ CheckTagArgument(res.arg.tag) = ""
         /\ Len(tags) >= 8
         /\ tags[3] = TypeB
         /\ s # 0) =>
            /\ (c < 0 \/ c > Len(tags) \/ c * s > Len(tags) - 8) => res.err = TruncatedTag
            /\ (res.err = "" /\ Slice(tags, 0, 2) = res.arg.tag.chars) =>
                   (/\ c >= 0
                    /\ c <= Len(tags)
                    /\ res.val.kind = "buffer"
                    /\ Len(res.val.chars) = c * s)


\* C21: VirtualFileOffset.from_bytes(b) of a bytes object b returns an offset
\* only when b has exactly 8 bytes, and its value is those bytes read as a
\* little-endian 64-bit number; for every other length it fails, returns no
\* object and reads no byte of b.
FromBytesTakesExactlyEightBytes ==
    (res.op = "from_bytes" /\ res.arg.b.kind = "bytes") =>
        LET b == res.arg.b.chars
        IN  IF Len(b) = 8
            THEN /\ res.ok
                 /\ vfo # PyNone
                 /\ vfo.voffset = [i \in 1..4 |-> b[2 * i - 1] + 256 * b[2 * i]]
            ELSE /\ ~res.ok
                 /\ vfo = PyNone
                 /\ res.bytes = <<>>
                 /\ ~res.oob

\* C22: two VirtualFileOffset objects compare equal exactly when their 64-bit
\* values are equal, and a < b holds exactly when the value of a is below the
\* value of b, whichever constructor made them.
OffsetsCompareByValue ==
    res.op = "compare" =>
        LET a == vfo.voffset
            b == res.arg.other
            less == \E i \in 1..4 : a[i] < b[i] /\ \A j \in (i + 1)..4 : a[j] = b[j]
            bool(p) == PyValue("bool", <<>>, IF p THEN 1 ELSE 0, 0)
        IN  /\ res.ok
            /\ res.arg.op = "==" => res.val = bool(a = b)
            /\ res.arg.op = "<" => res.val = bool(less)


\* C23: a buffer view that Cigar.from_buffer or set_tag with an array value
\* acquires from the object of the caller is released before the call returns,
\* on the successful return and on every failing one: no call returns with a
\* view still held.
ViewsReleasedOnEveryExit ==
    res.op \in {"from_buffer", "set_tag"} => res.held = 0


\* C30: in both BamRecord types each read-only member named after a field of
\* the BAM header returns that field; _n_cigar_op returns n_cigar_op, and not
\* bin, also for a record whose n_cigar_op differs from its bin.
MemberReturnsItsField ==
    res.op = "member" =>
        res.val = [_block_size |-> PyLongFromU32(rec.block_size),
                   _refID |-> PyInt(rec.refID),
                   _pos |-> PyInt(rec.pos),
                   _l_read_name |-> PyInt(rec.l_read_name),
                   _mapq |-> PyInt(rec.mapq),
                   _bin |-> PyInt(rec.bin),
                   _n_cigar_op |-> PyInt(rec.n_cigar_op),
                   _flag |-> PyInt(rec.flag),
                   _l_seq |-> PyLongFromU32(rec.l_seq),
                   _next_refID |-> PyInt(rec.next_refID),
                   _next_pos |-> PyInt(rec.next_pos),
                   _tlen |-> PyInt(rec.tlen)][res.arg.name]

====
